---- MODULE Spec2Model ----
\* Career-craft skill tools: SkillExtractor (tools/skill_extractor.py), JobSearchAPI
\* (tools/job_api.py) and LearningResourcesFinder (tools/learning_resources.py).
\*
\* Python strings are sequences of one-character strings, so that lower(), title(),
\* substring containment and endswith() are computed character by character.
\* A caller repeatedly invokes one operation of the tools with arguments drawn from
\* bounded sets; the operation runs to completion and its result is recorded.
\* Floating point percentages are kept as exact fractions [num, den].
\* SessionManager (memory/session_manager.py) is a second state machine: the in-memory
\* sessions of each instance, the session file they share and the clock of the session ids.
EXTENDS Integers, Sequences, FiniteSets, TLC

\* ---------------------------------------------------------------- bounds
\* Longest list of required / ranked / learning-path skills passed by the caller.
MaxSkills == 3
\* Longest list of user skills passed by the caller.
MaxUserSkills == 2
\* Largest number of fragments concatenated into a text for extract_skills.
MaxFrags == 3

\* ---------------------------------------------------------------- strings
UpperCase ==
  <<"A","B","C","D","E","F","G","H","I","J","K","L","M",
    "N","O","P","Q","R","S","T","U","V","W","X","Y","Z">>

LowerCase ==
  <<"a","b","c","d","e","f","g","h","i","j","k","l","m",
    "n","o","p","q","r","s","t","u","v","w","x","y","z">>

Range(s) == {s[i] : i \in 1..Len(s)}

IsUpper(c) == \E i \in 1..Len(UpperCase) : UpperCase[i] = c

IsLower(c) == \E i \in 1..Len(LowerCase) : LowerCase[i] = c

IsCased(c) == IsUpper(c) \/ IsLower(c)

char_lower(c) ==
  IF IsUpper(c) THEN LowerCase[CHOOSE i \in 1..Len(UpperCase) : UpperCase[i] = c] ELSE c

char_upper(c) ==
  IF IsLower(c) THEN UpperCase[CHOOSE i \in 1..Len(LowerCase) : LowerCase[i] = c] ELSE c

\* str.lower()
lower(s) ==
  LET l[n \in 0..Len(s)] == IF n = 0 THEN <<>> ELSE Append(l[n - 1], char_lower(s[n]))
  IN  l[Len(s)]

\* [s.lower() for s in list]
lower_all(list) ==
  LET l[n \in 0..Len(list)] == IF n = 0 THEN <<>> ELSE Append(l[n - 1], lower(list[n]))
  IN  l[Len(list)]

\* str.title(): a cased character is upper-cased when the character before it is not
\* cased (or it is the first one) and lower-cased otherwise.
title(s) ==
  LET t[n \in 0..Len(s)] ==
        IF n = 0 THEN <<>>
        ELSE Append(t[n - 1],
                    IF n > 1 /\ IsCased(s[n - 1]) THEN char_lower(s[n]) ELSE char_upper(s[n]))
  IN  t[Len(s)]

\* Python's `needle in hay` on strings.
Contains(hay, needle) ==
  \E i \in 0..(Len(hay) - Len(needle)) : SubSeq(hay, i + 1, i + Len(needle)) = needle

\* str.endswith()
endswith(s, suffix) ==
  /\ Len(suffix) <= Len(s)
  /\ SubSeq(s, Len(s) - Len(suffix) + 1, Len(s)) = suffix

\* Python's `x in list`.
InList(x, list) == \E i \in 1..Len(list) : list[i] = x

\* [s.title() for s in list]
title_all(list) ==
  LET t[n \in 0..Len(list)] == IF n = 0 THEN <<>> ELSE Append(t[n - 1], title(list[n]))
  IN  t[Len(list)]

\* All lists of at most n elements of V.
ListsUpTo(V, n) == UNION {[1..k -> V] : k \in 0..n}

\* ---------------------------------------------------------------- reference data
\* Category keys in the insertion order of the skills dictionary.
CategoryOrder ==
  <<"programming_languages", "frontend", "backend", "databases", "cloud_platforms",
    "devops", "machine_learning", "data_science", "web_technologies", "version_control",
    "soft_skills", "certifications", "methodologies", "other_tools">>

Categories == {CategoryOrder[i] : i \in 1..Len(CategoryOrder)}

\* SkillExtractor._create_skills_database: category -> list of canonical skills.
create_skills_database ==
  ("programming_languages" :> <<
      <<"p","y","t","h","o","n">>, <<"j","a","v","a">>,
      <<"j","a","v","a","s","c","r","i","p","t">>, <<"c","+","+">>, <<"c","#">>, <<"g","o">>,
      <<"r","u","s","t">>, <<"k","o","t","l","i","n">>, <<"s","w","i","f","t">>,
      <<"p","h","p">>, <<"r","u","b","y">>, <<"s","c","a","l","a">>, <<"r">>,
      <<"m","a","t","l","a","b">>, <<"v","b",".","n","e","t">>, <<"p","e","r","l">>,
      <<"t","y","p","e","s","c","r","i","p","t">>, <<"g","r","o","o","v","y">>,
      <<"d","a","r","t">>, <<"l","u","a">>
    >>)
  @@ ("frontend" :> <<
      <<"r","e","a","c","t">>, <<"a","n","g","u","l","a","r">>, <<"v","u","e">>,
      <<"s","v","e","l","t","e">>, <<"h","t","m","l">>, <<"c","s","s">>,
      <<"b","o","o","t","s","t","r","a","p">>, <<"t","a","i","l","w","i","n","d">>,
      <<"m","a","t","e","r","i","a","l"," ","d","e","s","i","g","n">>,
      <<"w","e","b","p","a","c","k">>, <<"b","a","b","e","l">>,
      <<"r","e","s","p","o","n","s","i","v","e"," ","d","e","s","i","g","n">>,
      <<"j","q","u","e","r","y">>, <<"n","e","x","t",".","j","s">>, <<"g","a","t","s","b","y">>,
      <<"n","u","x","t">>, <<"f","l","u","t","t","e","r"," ","w","e","b">>,
      <<"f","l","u","t","t","e","r">>
    >>)
  @@ ("backend" :> <<
      <<"d","j","a","n","g","o">>, <<"f","l","a","s","k">>, <<"f","a","s","t","a","p","i">>,
      <<"n","o","d","e","j","s">>, <<"e","x","p","r","e","s","s">>, <<"s","p","r","i","n","g">>,
      <<"s","p","r","i","n","g"," ","b","o","o","t">>, <<"l","a","r","a","v","e","l">>,
      <<"r","u","b","y"," ","o","n"," ","r","a","i","l","s">>, <<"a","s","p",".","n","e","t">>,
      <<"a","s","p",".","n","e","t"," ","c","o","r","e">>, <<"n","e","s","t",".","j","s">>,
      <<"g","r","a","p","h","q","l">>, <<"r","e","s","t"," ","a","p","i">>,
      <<"m","i","c","r","o","s","e","r","v","i","c","e","s">>,
      <<"m","o","n","o","l","i","t","h","i","c">>
    >>)
  @@ ("databases" :> <<
      <<"s","q","l">>, <<"m","y","s","q","l">>, <<"p","o","s","t","g","r","e","s","q","l">>,
      <<"m","o","n","g","o","d","b">>, <<"c","a","s","s","a","n","d","r","a">>,
      <<"r","e","d","i","s">>, <<"e","l","a","s","t","i","c","s","e","a","r","c","h">>,
      <<"d","y","n","a","m","o","d","b">>, <<"f","i","r","e","b","a","s","e">>,
      <<"n","e","o","4","j">>, <<"o","r","a","c","l","e">>, <<"s","q","l","i","t","e">>,
      <<"m","a","r","i","a","d","b">>, <<"c","o","u","c","h","d","b">>,
      <<"i","n","f","l","u","x","d","b">>
    >>)
  @@ ("cloud_platforms" :> <<
      <<"a","w","s">>, <<"a","z","u","r","e">>,
      <<"g","o","o","g","l","e"," ","c","l","o","u","d">>, <<"g","c","p">>,
      <<"h","e","r","o","k","u">>, <<"d","i","g","i","t","a","l"," ","o","c","e","a","n">>,
      <<"a","l","i","b","a","b","a"," ","c","l","o","u","d">>,
      <<"i","b","m"," ","c","l","o","u","d">>,
      <<"o","r","a","c","l","e"," ","c","l","o","u","d">>,
      <<"k","u","b","e","r","n","e","t","e","s">>, <<"d","o","c","k","e","r">>,
      <<"d","o","c","k","e","r"," ","s","w","a","r","m">>,
      <<"o","p","e","n","s","t","a","c","k">>
    >>)
  @@ ("devops" :> <<
      <<"d","o","c","k","e","r">>, <<"k","u","b","e","r","n","e","t","e","s">>,
      <<"j","e","n","k","i","n","s">>, <<"g","i","t","l","a","b"," ","c","i">>,
      <<"g","i","t","h","u","b"," ","a","c","t","i","o","n","s">>,
      <<"c","i","r","c","l","e","c","i">>, <<"t","r","a","v","i","s"," ","c","i">>,
      <<"t","e","r","r","a","f","o","r","m">>, <<"a","n","s","i","b","l","e">>,
      <<"p","u","p","p","e","t">>, <<"c","h","e","f">>,
      <<"p","r","o","m","e","t","h","e","u","s">>, <<"g","r","a","f","a","n","a">>,
      <<"e","l","k"," ","s","t","a","c","k">>, <<"d","a","t","a","d","o","g">>,
      <<"n","e","w","r","e","l","i","c">>
    >>)
  @@ ("machine_learning" :> <<
      <<"t","e","n","s","o","r","f","l","o","w">>, <<"p","y","t","o","r","c","h">>,
      <<"k","e","r","a","s">>, <<"s","c","i","k","i","t","-","l","e","a","r","n">>,
      <<"x","g","b","o","o","s","t">>, <<"l","i","g","h","t","g","b","m">>,
      <<"c","a","t","b","o","o","s","t">>, <<"h","u","g","g","i","n","g"," ","f","a","c","e">>,
      <<"t","r","a","n","s","f","o","r","m","e","r","s">>, <<"n","l","p">>,
      <<"c","o","m","p","u","t","e","r"," ","v","i","s","i","o","n">>,
      <<"d","e","e","p"," ","l","e","a","r","n","i","n","g">>,
      <<"n","e","u","r","a","l"," ","n","e","t","w","o","r","k","s">>, <<"l","s","t","m">>,
      <<"c","n","n">>, <<"r","n","n">>, <<"g","a","n">>,
      <<"r","e","i","n","f","o","r","c","e","m","e","n","t"," ","l","e","a","r","n","i","n","g">>,
      <<"s","u","p","e","r","v","i","s","e","d"," ","l","e","a","r","n","i","n","g">>,
      <<"u","n","s","u","p","e","r","v","i","s","e","d"," ","l","e","a","r","n","i","n","g">>,
      <<"n","l","p">>, <<"c","v">>
    >>)
  @@ ("data_science" :> <<
      <<"p","a","n","d","a","s">>, <<"n","u","m","p","y">>, <<"s","c","i","p","y">>,
      <<"m","a","t","p","l","o","t","l","i","b">>, <<"s","e","a","b","o","r","n">>,
      <<"p","l","o","t","l","y">>, <<"t","a","b","l","e","a","u">>,
      <<"p","o","w","e","r"," ","b","i">>, <<"e","x","c","e","l">>,
      <<"j","u","p","y","t","e","r">>, <<"r">>, <<"s","p","s","s">>, <<"s","a","s">>,
      <<"d","a","t","a"," ","a","n","a","l","y","s","i","s">>,
      <<"d","a","t","a"," ","v","i","s","u","a","l","i","z","a","t","i","o","n">>,
      <<"d","a","t","a"," ","m","i","n","i","n","g">>,
      <<"s","t","a","t","i","s","t","i","c","a","l"," ","a","n","a","l","y","s","i","s">>
    >>)
  @@ ("web_technologies" :> <<
      <<"r","e","s","t">>, <<"g","r","a","p","h","q","l">>, <<"s","o","a","p">>,
      <<"h","t","t","p">>, <<"h","t","t","p","s">>, <<"j","s","o","n">>, <<"x","m","l">>,
      <<"o","a","u","t","h">>, <<"j","w","t">>, <<"s","s","l","/","t","l","s">>,
      <<"c","o","r","s">>, <<"w","e","b","s","o","c","k","e","t","s">>,
      <<"p","r","o","g","r","e","s","s","i","v","e"," ","w","e","b"," ","a","p","p">>,
      <<"p","w","a">>
    >>)
  @@ ("version_control" :> <<
      <<"g","i","t">>, <<"g","i","t","h","u","b">>, <<"g","i","t","l","a","b">>,
      <<"b","i","t","b","u","c","k","e","t">>, <<"s","v","n">>,
      <<"m","e","r","c","u","r","i","a","l">>, <<"p","e","r","f","o","r","c","e">>,
      <<"v","e","r","s","i","o","n"," ","c","o","n","t","r","o","l">>,
      <<"b","r","a","n","c","h","i","n","g">>, <<"m","e","r","g","i","n","g">>
    >>)
  @@ ("soft_skills" :> <<
      <<"c","o","m","m","u","n","i","c","a","t","i","o","n">>,
      <<"l","e","a","d","e","r","s","h","i","p">>,
      <<"p","r","o","b","l","e","m","-","s","o","l","v","i","n","g">>,
      <<"t","e","a","m","w","o","r","k">>,
      <<"p","r","o","j","e","c","t"," ","m","a","n","a","g","e","m","e","n","t">>,
      <<"a","g","i","l","e">>, <<"s","c","r","u","m">>, <<"k","a","n","b","a","n">>,
      <<"t","i","m","e"," ","m","a","n","a","g","e","m","e","n","t">>,
      <<"c","r","i","t","i","c","a","l"," ","t","h","i","n","k","i","n","g">>,
      <<"c","r","e","a","t","i","v","i","t","y">>,
      <<"a","d","a","p","t","a","b","i","l","i","t","y">>,
      <<"c","o","l","l","a","b","o","r","a","t","i","o","n">>,
      <<"p","r","e","s","e","n","t","a","t","i","o","n">>,
      <<"n","e","g","o","t","i","a","t","i","o","n">>,
      <<"c","o","n","f","l","i","c","t"," ","r","e","s","o","l","u","t","i","o","n">>,
      <<"m","e","n","t","o","r","i","n","g">>
    >>)
  @@ ("certifications" :> <<
      <<"a","w","s"," ","c","e","r","t","i","f","i","e","d">>,
      <<"g","o","o","g","l","e"," ","c","l","o","u","d"," ","c","e","r","t","i","f","i","e","d">>,
      <<"a","z","u","r","e"," ","c","e","r","t","i","f","i","e","d">>, <<"p","m","p">>,
      <<"c","i","s","s","p">>, <<"c","c","n","a">>, <<"c","c","i","e">>,
      <<"l","i","n","u","x","+">>, <<"s","e","c","u","r","i","t","y","+">>,
      <<"s","c","r","u","m"," ","m","a","s","t","e","r">>,
      <<"c","e","r","t","i","f","i","e","d"," ","k","u","b","e","r","n","e","t","e","s">>,
      <<"t","e","r","r","a","f","o","r","m"," ","a","s","s","o","c","i","a","t","e">>
    >>)
  @@ ("methodologies" :> <<
      <<"a","g","i","l","e">>, <<"s","c","r","u","m">>, <<"k","a","n","b","a","n">>,
      <<"w","a","t","e","r","f","a","l","l">>, <<"d","e","v","o","p","s">>,
      <<"c","o","n","t","i","n","u","o","u","s"," ","i","n","t","e","g","r","a","t","i","o","n">>,
      <<"c","o","n","t","i","n","u","o","u","s"," ","d","e","p","l","o","y","m","e","n","t">>,
      <<"t","e","s","t","-","d","r","i","v","e","n"," ","d","e","v","e","l","o","p","m","e","n","t">>,
      <<"b","d","d">>, <<"p","a","i","r"," ","p","r","o","g","r","a","m","m","i","n","g">>,
      <<"e","x","t","r","e","m","e"," ","p","r","o","g","r","a","m","m","i","n","g">>
    >>)
  @@ ("other_tools" :> <<
      <<"j","i","r","a">>, <<"c","o","n","f","l","u","e","n","c","e">>, <<"s","l","a","c","k">>,
      <<"t","e","a","m","s">>, <<"a","s","a","n","a">>, <<"t","r","e","l","l","o">>,
      <<"n","o","t","i","o","n">>, <<"f","i","g","m","a">>, <<"a","d","o","b","e"," ","x","d">>,
      <<"p","o","s","t","m","a","n">>, <<"i","n","s","o","m","n","i","a">>,
      <<"s","w","a","g","g","e","r">>, <<"v","s"," ","c","o","d","e">>,
      <<"i","n","t","e","l","l","i","j">>, <<"p","y","c","h","a","r","m">>,
      <<"s","u","b","l","i","m","e">>, <<"v","i","m">>
    >>)

\* JobSearchAPI._create_job_database. Fields whose characters no operation inspects
\* (company, currency, job_type, description) are kept as atomic strings.
create_job_database ==
  <<
    [id |-> 1,
     title |-> <<"S","e","n","i","o","r"," ","P","y","t","h","o","n"," ","D","e","v","e","l","o","p","e","r">>,
     company |-> "Google",
     location |-> <<"B","a","n","g","a","l","o","r","e">>,
     salary_min |-> 25, salary_max |-> 35, currency |-> "LPA",
     skills_required |-> <<
       <<"P","y","t","h","o","n">>, <<"D","j","a","n","g","o">>,
       <<"R","E","S","T"," ","A","P","I">>, <<"D","o","c","k","e","r">>, <<"A","W","S">>
     >>,
     experience_years |-> 5, job_type |-> "Full-time",
     description |-> "Build scalable backend services using Python and modern technologies"],
    [id |-> 2,
     title |-> <<"J","u","n","i","o","r"," ","M","L"," ","E","n","g","i","n","e","e","r">>,
     company |-> "Flipkart",
     location |-> <<"B","a","n","g","a","l","o","r","e">>,
     salary_min |-> 8, salary_max |-> 15, currency |-> "LPA",
     skills_required |-> <<
       <<"P","y","t","h","o","n">>, <<"T","e","n","s","o","r","F","l","o","w">>,
       <<"M","a","c","h","i","n","e"," ","L","e","a","r","n","i","n","g">>, <<"S","Q","L">>
     >>,
     experience_years |-> 1, job_type |-> "Full-time",
     description |-> "Work on machine learning models for e-commerce recommendations"],
    [id |-> 3,
     title |-> <<"F","u","l","l"," ","S","t","a","c","k"," ","D","e","v","e","l","o","p","e","r">>,
     company |-> "Microsoft",
     location |-> <<"R","e","m","o","t","e">>,
     salary_min |-> 18, salary_max |-> 28, currency |-> "LPA",
     skills_required |-> <<
       <<"J","a","v","a","S","c","r","i","p","t">>, <<"R","e","a","c","t">>,
       <<"N","o","d","e",".","j","s">>, <<"M","o","n","g","o","D","B">>, <<"A","z","u","r","e">>
     >>,
     experience_years |-> 3, job_type |-> "Full-time",
     description |-> "Develop web applications using modern frontend and backend technologies"],
    [id |-> 4,
     title |-> <<"D","a","t","a"," ","S","c","i","e","n","t","i","s","t">>,
     company |-> "Amazon",
     location |-> <<"D","e","l","h","i">>,
     salary_min |-> 20, salary_max |-> 32, currency |-> "LPA",
     skills_required |-> <<
       <<"P","y","t","h","o","n">>, <<"S","Q","L">>,
       <<"S","t","a","t","i","s","t","i","c","s">>,
       <<"M","a","c","h","i","n","e"," ","L","e","a","r","n","i","n","g">>,
       <<"T","a","b","l","e","a","u">>
     >>,
     experience_years |-> 2, job_type |-> "Full-time",
     description |-> "Analyze large datasets and build predictive models"],
    [id |-> 5,
     title |-> <<"F","r","o","n","t","e","n","d"," ","E","n","g","i","n","e","e","r">>,
     company |-> "Uber",
     location |-> <<"B","a","n","g","a","l","o","r","e">>,
     salary_min |-> 15, salary_max |-> 25, currency |-> "LPA",
     skills_required |-> <<
       <<"R","e","a","c","t">>, <<"J","a","v","a","S","c","r","i","p","t">>, <<"C","S","S">>,
       <<"H","T","M","L">>, <<"R","e","d","u","x">>
     >>,
     experience_years |-> 2, job_type |-> "Full-time",
     description |-> "Build beautiful and responsive user interfaces"],
    [id |-> 6,
     title |-> <<"D","e","v","O","p","s"," ","E","n","g","i","n","e","e","r">>,
     company |-> "Infosys",
     location |-> <<"R","e","m","o","t","e">>,
     salary_min |-> 14, salary_max |-> 22, currency |-> "LPA",
     skills_required |-> <<
       <<"D","o","c","k","e","r">>, <<"K","u","b","e","r","n","e","t","e","s">>,
       <<"A","W","S">>, <<"C","I","/","C","D">>, <<"L","i","n","u","x">>
     >>,
     experience_years |-> 2, job_type |-> "Full-time",
     description |-> "Manage infrastructure and deployment pipelines"]
  >>

\* LearningResourcesFinder._create_resources_database as a list of (key, resources)
\* buckets in dictionary order. Ratings are stored in tenths (4.8 is 48); name and url
\* are kept as atomic strings.
create_resources_database ==
  <<
    [key |-> <<"p","y","t","h","o","n">>,
     resources |-> <<
       [name |-> "Python for Everybody (Coursera)",
        platform |-> "Coursera",
        level |-> <<"B","e","g","i","n","n","e","r">>,
        duration_hours |-> 40, cost_inr |-> 0, rating |-> 48,
        url |-> "https://www.coursera.org/specializations/python"],
       [name |-> "Complete Python Bootcamp (Udemy)",
        platform |-> "Udemy",
        level |-> <<"B","e","g","i","n","n","e","r"," ","t","o"," ","I","n","t","e","r","m","e","d","i","a","t","e">>,
        duration_hours |-> 22, cost_inr |-> 499, rating |-> 46,
        url |-> "https://www.udemy.com/course/complete-python-bootcamp/"],
       [name |-> "Advanced Python Programming (Udemy)",
        platform |-> "Udemy",
        level |-> <<"A","d","v","a","n","c","e","d">>,
        duration_hours |-> 15, cost_inr |-> 599, rating |-> 47,
        url |-> "https://www.udemy.com/course/advanced-python-programming/"]
     >>],
    [key |-> <<"m","a","c","h","i","n","e"," ","l","e","a","r","n","i","n","g">>,
     resources |-> <<
       [name |-> "Machine Learning by Andrew Ng (Coursera)",
        platform |-> "Coursera",
        level |-> <<"I","n","t","e","r","m","e","d","i","a","t","e">>,
        duration_hours |-> 60, cost_inr |-> 2000, rating |-> 49,
        url |-> "https://www.coursera.org/learn/machine-learning"],
       [name |-> "Deep Learning Specialization (Coursera)",
        platform |-> "Coursera",
        level |-> <<"I","n","t","e","r","m","e","d","i","a","t","e"," ","t","o"," ","A","d","v","a","n","c","e","d">>,
        duration_hours |-> 100, cost_inr |-> 4000, rating |-> 48,
        url |-> "https://www.coursera.org/specializations/deep-learning"],
       [name |-> "ML with TensorFlow (Google Cloud)",
        platform |-> "Google Cloud",
        level |-> <<"I","n","t","e","r","m","e","d","i","a","t","e">>,
        duration_hours |-> 30, cost_inr |-> 0, rating |-> 47,
        url |-> "https://www.cloudskillsboost.google/paths/40"]
     >>],
    [key |-> <<"j","a","v","a","s","c","r","i","p","t">>,
     resources |-> <<
       [name |-> "The Complete JavaScript Course (Udemy)",
        platform |-> "Udemy",
        level |-> <<"B","e","g","i","n","n","e","r">>,
        duration_hours |-> 69, cost_inr |-> 499, rating |-> 48,
        url |-> "https://www.udemy.com/course/the-complete-javascript-course/"],
       [name |-> "JavaScript Algorithms (Freecodecamp)",
        platform |-> "Freecodecamp",
        level |-> <<"I","n","t","e","r","m","e","d","i","a","t","e">>,
        duration_hours |-> 40, cost_inr |-> 0, rating |-> 47,
        url |-> "https://www.freecodecamp.org/learn/javascript-algorithms-and-data-structures/"]
     >>],
    [key |-> <<"r","e","a","c","t">>,
     resources |-> <<
       [name |-> "React - The Complete Guide (Udemy)",
        platform |-> "Udemy",
        level |-> <<"I","n","t","e","r","m","e","d","i","a","t","e">>,
        duration_hours |-> 49, cost_inr |-> 599, rating |-> 48,
        url |-> "https://www.udemy.com/course/react-the-complete-guide-incl-redux/"],
       [name |-> "React Official Tutorial",
        platform |-> "React.dev",
        level |-> <<"B","e","g","i","n","n","e","r">>,
        duration_hours |-> 20, cost_inr |-> 0, rating |-> 49,
        url |-> "https://react.dev/learn"]
     >>],
    [key |-> <<"d","a","t","a"," ","s","c","i","e","n","c","e">>,
     resources |-> <<
       [name |-> "Data Science with Python (Coursera)",
        platform |-> "Coursera",
        level |-> <<"I","n","t","e","r","m","e","d","i","a","t","e">>,
        duration_hours |-> 50, cost_inr |-> 2000, rating |-> 47,
        url |-> "https://www.coursera.org/specializations/data-science-python"],
       [name |-> "SQL for Data Analysis (Udemy)",
        platform |-> "Udemy",
        level |-> <<"B","e","g","i","n","n","e","r">>,
        duration_hours |-> 10, cost_inr |-> 399, rating |-> 46,
        url |-> "https://www.udemy.com/course/sql-for-data-analysis/"]
     >>],
    [key |-> <<"a","w","s">>,
     resources |-> <<
       [name |-> "AWS Certified Cloud Practitioner (Udemy)",
        platform |-> "Udemy",
        level |-> <<"B","e","g","i","n","n","e","r">>,
        duration_hours |-> 15, cost_inr |-> 499, rating |-> 47,
        url |-> "https://www.udemy.com/course/aws-certified-cloud-practitioner/"],
       [name |-> "AWS Free Tier Hands-on (AWS)",
        platform |-> "AWS",
        level |-> <<"B","e","g","i","n","n","e","r">>,
        duration_hours |-> 20, cost_inr |-> 0, rating |-> 48,
        url |-> "https://aws.amazon.com/training/"]
     >>]
  >>
\* ---------------------------------------------------------------- state
VARIABLES
  skills_database,     \* SkillExtractor.skills_database
  job_database,        \* JobSearchAPI.job_database
  resources_database,  \* LearningResourcesFinder.resources_database
  pc,                  \* "idle": the caller is between calls; "returned": a call has returned
  call,                \* the operation last invoked and its arguments
  ret,                 \* the value it returned
  prev,                \* call and result that the current call was derived from, if any
  sessions,            \* SessionManager.sessions of each SessionManager instance
  session_file,        \* the file at session_file, shared by the instances
  now,                 \* datetime.now(), in whole seconds
  last                 \* the SessionManager operation last performed and what it returned

vars == <<skills_database, job_database, resources_database, pc, call, ret, prev,
          sessions, session_file, now, last>>

core_state == <<skills_database, job_database, resources_database, pc, call, ret, prev>>

session_state == <<sessions, session_file, now, last>>

dbs == <<skills_database, job_database, resources_database>>

NoCall == [op |-> "none"]

NoValue == [none |-> TRUE]

\* ---------------------------------------------------------------- fractions
\* (m / n) * 100 as an exact fraction.
Percent(m, n) == [num |-> m * 100, den |-> n]

Zero == [num |-> 0, den |-> 1]

FracLeq(a, b) == a.num * b.den <= b.num * a.den

FracEq(a, b) == a.num * b.den = b.num * a.den

FracOfInt(k) == [num |-> k, den |-> 1]

\* ---------------------------------------------------------------- find_skill_gaps
critical_keywords ==
  << <<"p","y","t","h","o","n">>, <<"j","a","v","a">>,
     <<"j","a","v","a","s","c","r","i","p","t">>, <<"s","q","l">>, <<"a","w","s">>,
     <<"d","o","c","k","e","r">>, <<"k","u","b","e","r","n","e","t","e","s">> >>

\* Variant: a required skill counts as held when it contains a user skill.
UserHasSubstring(req_skill, user_skills_lower) ==
  \E i \in 1..Len(user_skills_lower) : Contains(req_skill, user_skills_lower[i])

\* The test that files a required skill under have_skills.
UserHas(req_skill, user_skills_lower) == InList(req_skill, user_skills_lower)

\* Variant: the percentage is taken over the distinct required skills.
gap_percentage_distinct(have_skills, required_skills_lower) ==
  IF required_skills_lower # <<>>
  THEN Percent(Len(have_skills), Cardinality(Range(required_skills_lower)))
  ELSE Zero

\* (len(gaps["have_skills"]) / len(required_skills_lower)) * 100, or the initial 0.
gap_percentage(have_skills, required_skills_lower) ==
  IF required_skills_lower # <<>>
  THEN Percent(Len(have_skills), Len(required_skills_lower))
  ELSE Zero

\* A variant that flags a skill only when its lower-case form is itself a keyword.
is_critical_exact(skill) ==
  \E k \in 1..Len(critical_keywords) : lower(skill) = critical_keywords[k]

\* any(keyword in skill.lower() for keyword in critical_keywords)
is_critical(skill) ==
  \E k \in 1..Len(critical_keywords) : Contains(lower(skill), critical_keywords[k])

find_skill_gaps(user_skills, required_skills) ==
  LET user_skills_lower == lower_all(user_skills)
      required_skills_lower == lower_all(required_skills)
      Has(r) == UserHas(r, user_skills_lower)
      Lacks(r) == ~UserHas(r, user_skills_lower)
      have == title_all(SelectSeq(required_skills_lower, Has))
      missing == title_all(SelectSeq(required_skills_lower, Lacks))
      IsCritical(skill) == is_critical(skill)
  IN  [have_skills |-> have,
       missing_skills |-> missing,
       match_percentage |-> gap_percentage(have, required_skills_lower),
       priority_skills |-> SelectSeq(missing, IsCritical)]

\* User skills the caller passes to find_skill_gaps.
GapUserVocab ==
  { <<"p","y","t","h","o","n">>, <<"J","a","v","a">>, <<"J","S">> }

\* Required skills the caller passes to find_skill_gaps.
GapRequiredVocab ==
  { <<"P","y","t","h","o","n">>, <<"R","e","a","c","t">>,
    <<"J","a","v","a","S","c","r","i","p","t">>, <<"A","W","S"," ","L","a","m","b","d","a">> }

\* ["Python", "JavaScript"]
SampleUserSkills == <<<<"P","y","t","h","o","n">>, <<"J","a","v","a","S","c","r","i","p","t">>>>

\* ["Python", "JavaScript", "React", "SQL"]
SampleRequiredSkills ==
  <<<<"P","y","t","h","o","n">>, <<"J","a","v","a","S","c","r","i","p","t">>,
    <<"R","e","a","c","t">>, <<"S","Q","L">>>>

\* Argument pairs (user_skills, required_skills) the caller passes to find_skill_gaps.
GapCalls ==
  (ListsUpTo(GapUserVocab, MaxUserSkills) \X ListsUpTo(GapRequiredVocab, MaxSkills))
    \cup {<<SampleUserSkills, SampleRequiredSkills>>}

FindSkillGaps ==
  /\ pc = "idle"
  /\ \E args \in GapCalls :
       /\ call' = [op |-> "find_skill_gaps", user_skills |-> args[1],
                   required_skills |-> args[2]]
       /\ ret' = find_skill_gaps(args[1], args[2])
  /\ pc' = "returned"
  /\ UNCHANGED <<dbs, prev, session_state>>

\* ---------------------------------------------------------------- sorting
\* list.sort(key=..., reverse=True): a stable sort, descending by key, where key[i] is the
\* sort key of list[i]. Each element is inserted behind every element already placed whose
\* key is at least its own, so equal keys keep their input order.
StableSortDesc(list, key) ==
  LET Insert(sorted, x) ==
        LET k == Cardinality({i \in 1..Len(sorted) : key[sorted[i]] >= key[x]})
        IN  SubSeq(sorted, 1, k) \o <<x>> \o SubSeq(sorted, k + 1, Len(sorted))
      order[n \in 0..Len(list)] == IF n = 0 THEN <<>> ELSE Insert(order[n - 1], n)
  IN  [i \in 1..Len(list) |-> list[order[Len(list)][i]]]

\* ---------------------------------------------------------------- rank_skills
demand_scores ==
  << [key |-> <<"p","y","t","h","o","n">>, score |-> 95],
     [key |-> <<"j","a","v","a","s","c","r","i","p","t">>, score |-> 93],
     [key |-> <<"j","a","v","a">>, score |-> 92],
     [key |-> <<"r","e","a","c","t">>, score |-> 90],
     [key |-> <<"a","w","s">>, score |-> 88],
     [key |-> <<"d","o","c","k","e","r">>, score |-> 87],
     [key |-> <<"k","u","b","e","r","n","e","t","e","s">>, score |-> 86],
     [key |-> <<"m","a","c","h","i","n","e"," ","l","e","a","r","n","i","n","g">>, score |-> 85],
     [key |-> <<"s","q","l">>, score |-> 84],
     [key |-> <<"n","o","d","e","j","s">>, score |-> 82],
     [key |-> <<"a","n","g","u","l","a","r">>, score |-> 75],
     [key |-> <<"c","+","+">>, score |-> 70],
     [key |-> <<"g","o","l","a","n","g">>, score |-> 72],
     [key |-> <<"r","u","s","t">>, score |-> 68],
     [key |-> <<"s","c","a","l","a">>, score |-> 60],
     [key |-> <<"p","h","p">>, score |-> 65],
     [key |-> <<"r","u","b","y">>, score |-> 55],
     [key |-> <<"r">>, score |-> 70],
     [key |-> <<"t","e","n","s","o","r","f","l","o","w">>, score |-> 80],
     [key |-> <<"p","y","t","o","r","c","h">>, score |-> 78] >>

DefaultScore == 50

\* Variant: the score of the first key that contains the skill name.
demand_score_fuzzy(skill_lower) ==
  IF \E i \in 1..Len(demand_scores) : Contains(demand_scores[i].key, skill_lower)
  THEN demand_scores[CHOOSE i \in 1..Len(demand_scores) :
                       /\ Contains(demand_scores[i].key, skill_lower)
                       /\ \A j \in 1..(i - 1) : ~Contains(demand_scores[j].key, skill_lower)
                    ].score
  ELSE DefaultScore

\* demand_scores.get(skill_lower, 50)
demand_score(skill_lower) ==
  IF \E i \in 1..Len(demand_scores) : demand_scores[i].key = skill_lower
  THEN demand_scores[CHOOSE i \in 1..Len(demand_scores) :
                       demand_scores[i].key = skill_lower].score
  ELSE DefaultScore

\* Reverse of a list.
Reversed(list) == [i \in 1..Len(list) |-> list[Len(list) + 1 - i]]

\* Variant: the sort is ascending (reverse=True left out).
sort_ranked_ascending(ranked) ==
  StableSortDesc(ranked, [i \in 1..Len(ranked) |-> 0 - ranked[i][2]])

\* Variant: an ascending sort followed by a reversal of the list.
sort_ranked_then_reverse(ranked) == Reversed(sort_ranked_ascending(ranked))

\* ranked.sort(key=lambda x: x[1], reverse=True)
sort_ranked(ranked) ==
  StableSortDesc(ranked, [i \in 1..Len(ranked) |-> ranked[i][2]])

rank_skills(skills) ==
  LET ranked[n \in 0..Len(skills)] ==
        IF n = 0 THEN <<>>
        ELSE LET skill == skills[n]
                 skill_lower == lower(skill)
                 score == demand_score(skill_lower)
             IN  Append(ranked[n - 1], <<skill, score>>)
  IN  sort_ranked(ranked[Len(skills)])

\* Skill names the caller passes to rank_skills.
RankVocab ==
  { <<"P","y","t","h","o","n">>, <<"p","y","t","h","o","n">>, <<"G","o">>, <<"R">>,
    <<"c","+","+">>, <<"J","a","v","a","S","c","r","i","p","t">> }

RankSkills ==
  /\ pc = "idle"
  /\ \E s \in ListsUpTo(RankVocab, MaxSkills) :
       /\ call' = [op |-> "rank_skills", skills |-> s]
       /\ ret' = rank_skills(s)
  /\ pc' = "returned"
  /\ UNCHANGED <<dbs, prev, session_state>>

SkillNames(ranked) == [i \in 1..Len(ranked) |-> ranked[i][1]]

\* The caller ranks again the skill names of the ranking it just received.
RankAgain ==
  /\ pc = "returned"
  /\ call.op = "rank_skills"
  /\ prev = NoCall
  /\ prev' = [op |-> "rank_skills", skills |-> call.skills, ret |-> ret]
  /\ call' = [op |-> "rank_skills", skills |-> SkillNames(ret)]
  /\ ret' = rank_skills(SkillNames(ret))
  /\ UNCHANGED <<dbs, pc, session_state>>

\* ---------------------------------------------------------------- extract_skills
\* Keys of the found_skills literal, in order.
found_skills_keys ==
  <<"programming_languages", "frontend", "backend", "databases", "cloud_platforms",
    "devops", "machine_learning", "data_science", "web_technologies", "version_control",
    "soft_skills", "certifications", "methodologies", "other_tools">>

\* f" {skill} " in f" {text_lower} " or text_lower.endswith(skill)
skill_matches(skill, text_lower) ==
  \/ Contains(<<" ">> \o text_lower \o <<" ">>, <<" ">> \o skill \o <<" ">>)
  \/ endswith(text_lower, skill)

\* `skill not in found_skills[category]`: the lower-case catalog skill is looked up in the
\* list of title-cased skills found so far.
not_yet_found(skill, found) == ~InList(skill, found)

\* Variant: the skill is appended as spelled in the catalog.
found_entry_raw(skill) == skill

\* What extract_skills appends for a matching skill.
found_entry(skill) == title(skill)

\* The inner loop of extract_skills over one category's skills_list.
extract_category(skills_list, text_lower) ==
  LET found[n \in 0..Len(skills_list)] ==
        IF n = 0 THEN <<>>
        ELSE IF skill_matches(skills_list[n], text_lower)
                /\ not_yet_found(skills_list[n], found[n - 1])
             THEN Append(found[n - 1], found_entry(skills_list[n]))
             ELSE found[n - 1]
  IN  found[Len(skills_list)]

\* A variant whose result keeps only the categories in which a skill was found.
extract_skills_found_only(text) ==
  LET text_lower == lower(text)
      Found(category) ==
        IF category \in DOMAIN skills_database
        THEN extract_category(skills_database[category], text_lower)
        ELSE <<>>
  IN  [category \in {c \in Range(found_skills_keys) : Found(c) # <<>>} |-> Found(category)]

extract_skills(text) ==
  LET text_lower == lower(text)
  IN  [category \in Range(found_skills_keys) |->
         IF category \in DOMAIN skills_database
         THEN extract_category(skills_database[category], text_lower)
         ELSE <<>>]

\* Pieces the caller concatenates into a text.
Fragments ==
  { <<"J","a","v","a">>, <<"s","c","r","i","p","t">>, <<" ">>, <<",">>,
    <<"N","L","P">>, <<"d","j","a","n">>, <<"g","o">> }

Concat(pieces) ==
  LET cat[n \in 0..Len(pieces)] == IF n = 0 THEN <<>> ELSE cat[n - 1] \o pieces[n]
  IN  cat[Len(pieces)]

\* "I know Python, JavaScript, React, Docker, and AWS"
SampleText ==
  <<"I"," ","k","n","o","w"," ","P","y","t","h","o","n",","," ","J","a","v","a","S","c","r",
    "i","p","t",","," ","R","e","a","c","t",","," ","D","o","c","k","e","r",","," ","a","n",
    "d"," ","A","W","S">>

Texts == {Concat(p) : p \in ListsUpTo(Fragments, MaxFrags)} \cup {SampleText}

ExtractSkills ==
  /\ pc = "idle"
  /\ \E t \in Texts :
       /\ call' = [op |-> "extract_skills", text |-> t]
       /\ ret' = extract_skills(t)
  /\ pc' = "returned"
  /\ UNCHANGED <<dbs, prev, session_state>>

\* ---------------------------------------------------------------- match_jobs
\* round(x, 1) on an exact fraction: the nearest tenth, halves to the even tenth.
round1(x) ==
  LET q == (x.num * 10) \div x.den
      r == (x.num * 10) % x.den
      tenths == IF 2 * r < x.den THEN q
                ELSE IF 2 * r > x.den THEN q + 1
                ELSE IF q % 2 = 0 THEN q ELSE q + 1
  IN  [num |-> tenths, den |-> 10]

\* A variant that asks every user skill to be part of the required skill.
skill_covered_by_all(skill, user_skills_lower) ==
  \A i \in 1..Len(user_skills_lower) : Contains(skill, user_skills_lower[i])

\* any(us in skill for us in user_skills_lower)
skill_covered(skill, user_skills_lower) ==
  \E i \in 1..Len(user_skills_lower) : Contains(skill, user_skills_lower[i])

\* match_percentage of one job, before rounding.
job_match_percentage(job, user_skills_lower) ==
  LET required_skills == lower_all(job.skills_required)
      matches == Cardinality({i \in 1..Len(required_skills) :
                                skill_covered(required_skills[i], user_skills_lower)})
  IN  IF required_skills # <<>> THEN Percent(matches, Len(required_skills)) ELSE Zero

MatchThreshold == 50

\* Variant: any posting with a matched skill passes.
meets_threshold_any(match_percentage) == match_percentage.num > 0

\* `if match_percentage >= 50`
meets_threshold(match_percentage) == FracLeq(FracOfInt(MatchThreshold), match_percentage)

\* Variant: the location filter is compared without lower-casing.
location_excluded_case_sensitive(job, target_location) ==
  target_location # <<>> /\ ~Contains(job.location, target_location)

\* `if target_location and target_location.lower() not in job['location'].lower(): continue`
location_excluded(job, target_location) ==
  target_location # <<>> /\ ~Contains(lower(job.location), lower(target_location))

\* matched_jobs.sort(key=lambda x: x['match_percentage'], reverse=True). Every
\* match_percentage is a number of tenths produced by round1, so the tenths are the key.
sort_matched(matched_jobs) ==
  StableSortDesc(matched_jobs,
                 [i \in 1..Len(matched_jobs) |-> matched_jobs[i].match_percentage.num])

match_jobs(user_skills, target_location) ==
  LET user_skills_lower == lower_all(user_skills)
      matched_jobs[n \in 0..Len(job_database)] ==
        IF n = 0 THEN <<>>
        ELSE LET job == job_database[n]
                 match_percentage == job_match_percentage(job, user_skills_lower)
             IN  IF location_excluded(job, target_location) THEN matched_jobs[n - 1]
                 ELSE IF meets_threshold(match_percentage)
                      THEN Append(matched_jobs[n - 1],
                                  [match_percentage |-> round1(match_percentage)] @@ job)
                      ELSE matched_jobs[n - 1]
  IN  sort_matched(matched_jobs[Len(job_database)])

\* User skills the caller passes to match_jobs.
MatchVocab ==
  { <<"P","y","t","h","o","n">>, <<"s","q","l">>, <<"A","W","S">>, <<"R","e","a","c","t">>,
    <<"c","s","s">>, <<"R">>,
    <<"M","a","c","h","i","n","e"," ","L","e","a","r","n","i","n","g">> }

\* Location filters the caller passes to match_jobs.
Locations ==
  { <<>>, <<"B","a","n","g","a","l","o","r","e">>, <<"r","e","m","o","t","e">>,
    <<"D","e","l","h","i">> }

\* A variant that sorts the job database itself by match percentage and returns the
\* postings that meet the threshold.
MatchJobsSortingDatabase ==
  /\ pc = "idle"
  /\ \E u \in ListsUpTo(MatchVocab, MaxUserSkills), loc \in Locations :
       /\ call' = [op |-> "match_jobs", user_skills |-> u, target_location |-> loc]
       /\ ret' = match_jobs(u, loc)
       /\ job_database' =
            StableSortDesc(job_database,
                           [i \in 1..Len(job_database) |->
                              round1(job_match_percentage(job_database[i], lower_all(u))).num])
  /\ pc' = "returned"
  /\ UNCHANGED <<skills_database, resources_database, prev, session_state>>

MatchJobs ==
  /\ pc = "idle"
  /\ \E u \in ListsUpTo(MatchVocab, MaxUserSkills), loc \in Locations :
       /\ call' = [op |-> "match_jobs", user_skills |-> u, target_location |-> loc]
       /\ ret' = match_jobs(u, loc)
  /\ pc' = "returned"
  /\ UNCHANGED <<dbs, prev, session_state>>

\* The caller matches again with one more skill in the list and the same location filter.
MatchWithMoreSkills ==
  /\ pc = "returned"
  /\ call.op = "match_jobs"
  /\ prev = NoCall
  /\ Len(call.user_skills) < MaxUserSkills
  /\ \E s \in MatchVocab :
       LET more == Append(call.user_skills, s)
       IN  /\ call' = [call EXCEPT !.user_skills = more]
           /\ ret' = match_jobs(more, call.target_location)
  /\ prev' = [op |-> "match_jobs", user_skills |-> call.user_skills,
              target_location |-> call.target_location, ret |-> ret]
  /\ UNCHANGED <<dbs, pc, session_state>>

\* ---------------------------------------------------------------- search_jobs
\* keywords_lower in job['title'].lower() or
\* any(kw in keywords_lower for kw in job['skills_required'])
keyword_match(job, keywords_lower) ==
  \/ Contains(lower(job.title), keywords_lower)
  \/ \E k \in 1..Len(job.skills_required) : Contains(keywords_lower, job.skills_required[k])

\* location.lower() in job['location'].lower() or
\* location.lower() == "remote" and job['location'].lower() == "remote"
location_match(job, location) ==
  \/ Contains(lower(job.location), lower(location))
  \/ /\ lower(location) = <<"r","e","m","o","t","e">>
     /\ lower(job.location) = <<"r","e","m","o","t","e">>

\* Variant: the posting may require at most min_experience years.
exp_match_at_most(job, min_experience) == job.experience_years <= min_experience

\* job['experience_years'] >= min_experience
exp_match(job, min_experience) == job.experience_years >= min_experience

search_jobs(keywords, location, min_experience) ==
  LET keywords_lower == lower(keywords)
      Selected(job) == /\ keyword_match(job, keywords_lower)
                       /\ location_match(job, location)
                       /\ exp_match(job, min_experience)
  IN  SelectSeq(job_database, Selected)

\* Largest min_experience the caller passes to search_jobs.
MaxMinExperience == 6

\* Keywords the caller passes to search_jobs.
Keywords ==
  { <<>>, <<"P","y","t","h","o","n">>, <<"E","n","g","i","n","e","e","r">>, <<"R","e","a","c","t">>, <<"d","a","t","a">> }

SearchJobs ==
  /\ pc = "idle"
  /\ \E k \in Keywords, loc \in Locations, e \in 0..MaxMinExperience :
       /\ call' = [op |-> "search_jobs", keywords |-> k, location |-> loc,
                   min_experience |-> e]
       /\ ret' = search_jobs(k, loc, e)
  /\ pc' = "returned"
  /\ UNCHANGED <<dbs, prev, session_state>>

\* The caller repeats the search it just made with a larger min_experience.
SearchStricter ==
  /\ pc = "returned"
  /\ call.op = "search_jobs"
  /\ prev = NoCall
  /\ \E e \in (call.min_experience + 1)..MaxMinExperience :
       /\ call' = [call EXCEPT !.min_experience = e]
       /\ ret' = search_jobs(call.keywords, call.location, e)
  /\ prev' = [op |-> "search_jobs", keywords |-> call.keywords, location |-> call.location,
              min_experience |-> call.min_experience, ret |-> ret]
  /\ UNCHANGED <<dbs, pc, session_state>>

\* ---------------------------------------------------------------- create_learning_path
\* Variant: a bucket is found only under the exact lower-case skill name.
bucket_matches_exact(key, skill_lower) == key = skill_lower

\* `skill_lower in key or key in skill_lower`
bucket_matches(key, skill_lower) == Contains(key, skill_lower) \/ Contains(skill_lower, key)

\* find_resources(skill, level): the resources of the first bucket whose key contains the
\* lower-cased skill or is contained in it, filtered by level when one is given.
find_resources(skill, level) ==
  LET skill_lower == lower(skill)
      Hit(i) == bucket_matches(resources_database[i].key, skill_lower)
      OfLevel(r) == Contains(lower(r.level), lower(level))
  IN  IF \E i \in 1..Len(resources_database) : Hit(i)
      THEN LET first == CHOOSE i \in 1..Len(resources_database) :
                          Hit(i) /\ \A j \in 1..(i - 1) : ~Hit(j)
               resources == resources_database[first].resources
           IN  IF level # <<>> THEN SelectSeq(resources, OfLevel) ELSE resources
      ELSE <<>>

\* Variant: the first resource of the bucket is taken.
best_rated_first(resources) == resources[1]

\* max(resources, key=lambda x: x['rating']): the first resource of maximal rating.
best_rated(resources) ==
  resources[CHOOSE i \in 1..Len(resources) :
              /\ \A j \in 1..Len(resources) : resources[j].rating <= resources[i].rating
              /\ \A j \in 1..(i - 1) : resources[j].rating < resources[i].rating]

\* Variant: the totals count the first resource of the bucket.
counted_resource_first(resources) == resources[1]

\* The resource whose hours and cost are added to the totals for a skill.
counted_resource(resources) == best_rated(resources)

create_learning_path(skills) ==
  LET learning_path[n \in 0..Len(skills)] ==
        IF n = 0
        THEN [skills |-> skills, total_hours |-> 0, total_cost |-> 0, resources |-> <<>>]
        ELSE LET skill == skills[n]
                 resources == find_resources(skill, <<>>)
                 path == learning_path[n - 1]
             IN  IF resources # <<>>
                 THEN LET best_resource == best_rated(resources)
                      IN  [skills |-> path.skills,
                           total_hours |->
                             path.total_hours + counted_resource(resources).duration_hours,
                           total_cost |->
                             path.total_cost + counted_resource(resources).cost_inr,
                           resources |->
                             Append(path.resources,
                                    [skill |-> skill,
                                     course |-> best_resource.name,
                                     platform |-> best_resource.platform,
                                     duration_hours |-> best_resource.duration_hours,
                                     cost_inr |-> best_resource.cost_inr,
                                     rating |-> best_resource.rating])]
                 ELSE path
  IN  learning_path[Len(skills)]

\* Skill names the caller passes to create_learning_path.
PathVocab ==
  { <<"P","y","t","h","o","n">>, <<"M","a","c","h","i","n","e"," ","L","e","a","r","n","i","n","g">>,
    <<"R","e","a","c","t">>, <<"G","o">>, <<"p","y">>, <<>>, <<"A","W","S">> }

CreateLearningPath ==
  /\ pc = "idle"
  /\ \E s \in ListsUpTo(PathVocab, MaxSkills) :
       /\ call' = [op |-> "create_learning_path", skills |-> s]
       /\ ret' = create_learning_path(s)
  /\ pc' = "returned"
  /\ UNCHANGED <<dbs, prev, session_state>>

\* Level filters the caller passes to find_resources; the empty one is the default.
Levels ==
  { <<>>, <<"b","e","g","i","n","n","e","r">>, <<"A","d","v","a","n","c","e","d">> }

FindResources ==
  /\ pc = "idle"
  /\ \E s \in PathVocab, l \in Levels :
       /\ call' = [op |-> "find_resources", skill |-> s, level |-> l]
       /\ ret' = find_resources(s, l)
  /\ pc' = "returned"
  /\ UNCHANGED <<dbs, prev, session_state>>

\* ---------------------------------------------------------------- suggest_skills
\* progression_paths, in dictionary order.
progression_paths ==
  << [key |-> <<"f","r","o","n","t","e","n","d">>,
      skills |-> <<<<"H","T","M","L">>, <<"C","S","S">>,
                   <<"J","a","v","a","S","c","r","i","p","t">>, <<"R","e","a","c","t">>,
                   <<"T","y","p","e","S","c","r","i","p","t">>, <<"N","e","x","t",".","j","s">>>>],
     [key |-> <<"b","a","c","k","e","n","d">>,
      skills |-> <<<<"P","y","t","h","o","n">>, <<"D","j","a","n","g","o">>,
                   <<"P","o","s","t","g","r","e","S","Q","L">>, <<"R","E","S","T"," ","A","P","I">>,
                   <<"D","o","c","k","e","r">>, <<"A","W","S">>>>],
     [key |-> <<"d","a","t","a"," ","s","c","i","e","n","c","e">>,
      skills |-> <<<<"P","y","t","h","o","n">>, <<"P","a","n","d","a","s">>,
                   <<"N","u","m","P","y">>, <<"S","c","i","k","i","t","-","l","e","a","r","n">>,
                   <<"T","e","n","s","o","r","F","l","o","w">>, <<"S","Q","L">>>>],
     [key |-> <<"d","e","v","o","p","s">>,
      skills |-> <<<<"L","i","n","u","x">>, <<"D","o","c","k","e","r">>,
                   <<"K","u","b","e","r","n","e","t","e","s">>, <<"A","W","S">>,
                   <<"T","e","r","r","a","f","o","r","m">>, <<"J","e","n","k","i","n","s">>>>],
     [key |-> <<"m","a","c","h","i","n","e"," ","l","e","a","r","n","i","n","g">>,
      skills |-> <<<<"P","y","t","h","o","n">>, <<"T","e","n","s","o","r","F","l","o","w">>,
                   <<"P","y","T","o","r","c","h">>, <<"N","L","P">>,
                   <<"C","o","m","p","u","t","e","r"," ","V","i","s","i","o","n">>, <<"M","L","O","p","s">>>>] >>

\* `key in goal_lower or goal_lower in key`
goal_matches(key, goal_lower) == Contains(goal_lower, key) \/ Contains(key, goal_lower)

MaxSuggestions == 5

\* Variant: the suggestions are returned without truncation.
top_suggestions_all(suggestions) == suggestions

\* suggestions[:5]
top_suggestions(suggestions) ==
  SubSeq(suggestions, 1,
         IF Len(suggestions) < MaxSuggestions THEN Len(suggestions) ELSE MaxSuggestions)

suggest_skills(current_skills, career_goal) ==
  LET current_skills_lower == lower_all(current_skills)
      goal_lower == IF career_goal # <<>> THEN lower(career_goal) ELSE <<>>
      Hit(i) == goal_matches(progression_paths[i].key, goal_lower)
      \* the loop over progression_paths stops at the first key that matches
      path == IF \E i \in 1..Len(progression_paths) : Hit(i)
              THEN progression_paths[CHOOSE i \in 1..Len(progression_paths) :
                                       Hit(i) /\ \A j \in 1..(i - 1) : ~Hit(j)].skills
              ELSE <<>>
      NotHeld(skill) == ~InList(lower(skill), current_skills_lower)
      suggestions == IF path # <<>> THEN SelectSeq(path, NotHeld) ELSE <<>>
  IN  top_suggestions(suggestions)

\* Current skills the caller passes to suggest_skills.
SuggestVocab ==
  { <<"p","y","t","h","o","n">>, <<"D","o","c","k","e","r">>, <<"h","t","m","l">>, <<"S","Q","L">> }

\* Career goals the caller passes to suggest_skills.
CareerGoals ==
  { <<>>, <<"D","a","t","a"," ","S","c","i","e","n","c","e">>, <<"M","L">>, <<"e">>,
    <<"D","e","v","O","p","s"," ","E","n","g","i","n","e","e","r">>, <<"s","c","i","e","n","c","e">>,
    <<"M","a","c","h","i","n","e"," ","L","e","a","r","n","i","n","g">> }

SuggestSkills ==
  /\ pc = "idle"
  /\ \E c \in ListsUpTo(SuggestVocab, MaxUserSkills), g \in CareerGoals :
       /\ call' = [op |-> "suggest_skills", current_skills |-> c, career_goal |-> g]
       /\ ret' = suggest_skills(c, g)
  /\ pc' = "returned"
  /\ UNCHANGED <<dbs, prev, session_state>>

\* ---------------------------------------------------------------- categorize_skills
\* Keys of the categorized literal, in order.
categorized_keys ==
  <<"programming_languages", "frontend", "backend", "databases", "cloud_platforms",
    "devops", "machine_learning", "data_science", "web_technologies", "version_control",
    "soft_skills", "certifications", "methodologies", "other_tools">>

\* Positions, in the iteration order of the skills database, of the categories that list
\* the lower-case skill.
listing_categories(skill_lower) ==
  {i \in 1..Len(CategoryOrder) : InList(skill_lower, skills_database[CategoryOrder[i]])}

\* A variant without the break: the skill is appended under every category listing it.
appended_categories_all(skill_lower) ==
  {CategoryOrder[i] : i \in listing_categories(skill_lower)}

\* The inner loop: the skill is appended under the first category that lists it, and the
\* loop breaks.
appended_categories(skill_lower) ==
  LET listing == listing_categories(skill_lower)
  IN  IF listing = {} THEN {}
      ELSE {CategoryOrder[CHOOSE i \in listing : \A j \in listing : i <= j]}

categorize_skills(skills) ==
  [category \in Range(categorized_keys) |->
     LET Appended(skill) == category \in appended_categories(lower(skill))
     IN  title_all(SelectSeq(skills, Appended))]

\* Skill names the caller passes to categorize_skills: catalog skills in other spellings,
\* a skill listed under two categories, and names outside the catalog.
CategorizeVocab ==
  { <<"d","o","c","k","e","r">>, <<"P","Y","T","H","O","N">>, <<"J","S">>, <<"r","E","A","C","T">>, <<"M","a","c","h","i","n","e"," ","L","e","a","r","n","i","n","g">> }

CategorizeSkills ==
  /\ pc = "idle"
  /\ \E s \in ListsUpTo(CategorizeVocab, MaxSkills) :
       /\ call' = [op |-> "categorize_skills", skills |-> s]
       /\ ret' = categorize_skills(s)
  /\ pc' = "returned"
  /\ UNCHANGED <<dbs, prev, session_state>>

\* ---------------------------------------------------------------- SessionManager
\* Last second of the clock.
MaxClock == 1

\* The SessionManager instances that share one session file.
Managers == {"first", "second"}

\* create_session("user") in main.py.
Users == { <<"u","s","e","r">> }

\* Keys and values the callers store.
Keys == {"name"}

Values == {"John"}

\* What dict.get and retrieve_session_data return for a missing entry.
None == "None"

\* {}
EmptyDict == [k \in {} |-> None]

Digits == <<"0", "1", "2", "3", "4", "5", "6", "7", "8", "9">>

\* datetime.now().strftime('%Y%m%d_%H%M%S'): one string per clock second.
strftime(t) ==
  <<"2","0","2","6","1","1","0","3","_","1","2","0","0","0">> \o <<Digits[t + 1]>>

\* f"{user_id}_{datetime.now().strftime('%Y%m%d_%H%M%S')}"
session_id_of(user_id, t) == user_id \o <<"_">> \o strftime(t)

\* Session ids the callers pass: every id a create_session of the run can return.
SessionIds == {session_id_of(user_id, t) : user_id \in Users, t \in 0..MaxClock}

\* The session file: absent, holding the JSON text of a sessions map, or holding text
\* that json.load rejects. The JSON text of a map of string keys and string values is
\* held as the map that json.load reads back from it.
NoFile == [state |-> "absent", sessions |-> EmptyDict]

MalformedFile == [state |-> "malformed", sessions |-> EmptyDict]

\* Outcomes of save_sessions: the file is written; makedirs or open raises, so the file
\* stays as it was; json.dump raises after open has truncated the file. Each exception is
\* caught and reported by a print.
SaveOutcomes == {"written", "unopened", "truncated"}

save_sessions(file, s, outcome) ==
  CASE outcome = "written" -> [state |-> "json", sessions |-> s]
    [] outcome = "unopened" -> file
    [] outcome = "truncated" -> MalformedFile

\* load_sessions: the map of an existing well-formed file; {} when the file is absent or
\* json.load raises.
load_sessions(file) ==
  IF file.state = "json" THEN file.sessions ELSE EmptyDict

\* d[k] = v
dict_set(d, k, v) == [x \in DOMAIN d \cup {k} |-> IF x = k THEN v ELSE d[x]]

\* del d[k]
dict_del(d, k) == [x \in DOMAIN d \ {k} |-> d[x]]

\* d.get(k)
dict_get(d, k) == IF k \in DOMAIN d THEN d[k] ELSE None

\* create_session without its save: the sessions map afterwards and the id returned.
\* created_at and last_updated, which no operation below reads, are left out.
create_session(s, user_id, t) ==
  LET session_id == session_id_of(user_id, t)
  IN  [sessions |-> dict_set(s, session_id, [user_id |-> user_id, data |-> EmptyDict]),
       ret |-> session_id]

\* A variant that opens a session for an id it does not know.
store_session_data_upsert(s, session_id, key, value) ==
  LET session == IF session_id \in DOMAIN s THEN s[session_id]
                 ELSE [user_id |-> <<>>, data |-> EmptyDict]
  IN  [sessions |-> dict_set(s, session_id,
                             [session EXCEPT !.data = dict_set(session.data, key, value)]),
       ret |-> TRUE, saves |-> TRUE]

\* store_session_data without its save: the sessions map afterwards, the value returned
\* and whether save_sessions is called.
store_session_data(s, session_id, key, value) ==
  IF session_id \in DOMAIN s
  THEN [sessions |-> [s EXCEPT ![session_id].data = dict_set(s[session_id].data, key, value)],
        ret |-> TRUE, saves |-> TRUE]
  ELSE [sessions |-> s, ret |-> FALSE, saves |-> FALSE]

retrieve_session_data(s, session_id, key) ==
  IF session_id \in DOMAIN s THEN dict_get(s[session_id].data, key) ELSE None

\* A variant that drops every session.
delete_session_all(s, session_id) ==
  IF session_id \in DOMAIN s
  THEN [sessions |-> EmptyDict, ret |-> TRUE, saves |-> TRUE]
  ELSE [sessions |-> s, ret |-> FALSE, saves |-> FALSE]

delete_session(s, session_id) ==
  IF session_id \in DOMAIN s
  THEN [sessions |-> dict_del(s, session_id), ret |-> TRUE, saves |-> TRUE]
  ELSE [sessions |-> s, ret |-> FALSE, saves |-> FALSE]

\* The operations of the first instance, whose caller uses every operation.
\* SessionManager(): a new instance takes the place of the instance and loads the file.
Construct ==
  /\ sessions' = [sessions EXCEPT !["first"] = load_sessions(session_file)]
  /\ last' = [op |-> "SessionManager", m |-> "first"]
  /\ UNCHANGED <<session_file, now, core_state>>

CreateSession ==
  /\ \E user_id \in Users, outcome \in SaveOutcomes :
       LET r == create_session(sessions["first"], user_id, now)
       IN  /\ sessions' = [sessions EXCEPT !["first"] = r.sessions]
           /\ session_file' = save_sessions(session_file, r.sessions, outcome)
           /\ last' = [op |-> "create_session", m |-> "first", user_id |-> user_id,
                       ret |-> r.ret, save |-> outcome]
  /\ UNCHANGED <<now, core_state>>

StoreSessionData ==
  /\ \E session_id \in SessionIds, key \in Keys, value \in Values :
       LET r == store_session_data(sessions["first"], session_id, key, value)
       IN  /\ sessions' = [sessions EXCEPT !["first"] = r.sessions]
           /\ IF r.saves
              THEN \E outcome \in SaveOutcomes :
                     /\ session_file' = save_sessions(session_file, r.sessions, outcome)
                     /\ last' = [op |-> "store_session_data", m |-> "first",
                                 session_id |-> session_id, key |-> key, value |-> value,
                                 ret |-> r.ret, save |-> outcome]
              ELSE /\ session_file' = session_file
                   /\ last' = [op |-> "store_session_data", m |-> "first",
                               session_id |-> session_id, key |-> key, value |-> value,
                               ret |-> r.ret, save |-> "none"]
  /\ UNCHANGED <<now, core_state>>

RetrieveSessionData ==
  /\ \E session_id \in SessionIds, key \in Keys :
       last' = [op |-> "retrieve_session_data", m |-> "first", session_id |-> session_id,
                key |-> key,
                ret |-> retrieve_session_data(sessions["first"], session_id, key)]
  /\ UNCHANGED <<sessions, session_file, now, core_state>>

DeleteSession ==
  /\ \E session_id \in SessionIds :
       LET r == delete_session(sessions["first"], session_id)
       IN  /\ sessions' = [sessions EXCEPT !["first"] = r.sessions]
           /\ IF r.saves
              THEN \E outcome \in SaveOutcomes :
                     /\ session_file' = save_sessions(session_file, r.sessions, outcome)
                     /\ last' = [op |-> "delete_session", m |-> "first",
                                 session_id |-> session_id, ret |-> r.ret, save |-> outcome]
              ELSE /\ session_file' = session_file
                   /\ last' = [op |-> "delete_session", m |-> "first",
                               session_id |-> session_id, ret |-> r.ret, save |-> "none"]
  /\ UNCHANGED <<now, core_state>>

\* The operations of the second instance, the one of the command-line interface, which
\* constructs it, creates sessions and stores to them.
CliConstruct ==
  /\ sessions' = [sessions EXCEPT !["second"] = load_sessions(session_file)]
  /\ last' = [op |-> "SessionManager", m |-> "second"]
  /\ UNCHANGED <<session_file, now, core_state>>

CliCreateSession ==
  /\ \E user_id \in Users, outcome \in SaveOutcomes :
       LET r == create_session(sessions["second"], user_id, now)
       IN  /\ sessions' = [sessions EXCEPT !["second"] = r.sessions]
           /\ session_file' = save_sessions(session_file, r.sessions, outcome)
           /\ last' = [op |-> "create_session", m |-> "second", user_id |-> user_id,
                       ret |-> r.ret, save |-> outcome]
  /\ UNCHANGED <<now, core_state>>

CliStoreSessionData ==
  /\ \E session_id \in SessionIds, key \in Keys, value \in Values :
       LET r == store_session_data(sessions["second"], session_id, key, value)
       IN  /\ sessions' = [sessions EXCEPT !["second"] = r.sessions]
           /\ IF r.saves
              THEN \E outcome \in SaveOutcomes :
                     /\ session_file' = save_sessions(session_file, r.sessions, outcome)
                     /\ last' = [op |-> "store_session_data", m |-> "second",
                                 session_id |-> session_id, key |-> key, value |-> value,
                                 ret |-> r.ret, save |-> outcome]
              ELSE /\ session_file' = session_file
                   /\ last' = [op |-> "store_session_data", m |-> "second",
                               session_id |-> session_id, key |-> key, value |-> value,
                               ret |-> r.ret, save |-> "none"]
  /\ UNCHANGED <<now, core_state>>

\* A second of the clock passes.
Tick ==
  /\ now < MaxClock
  /\ now' = now + 1
  /\ last' = [op |-> "tick"]
  /\ UNCHANGED <<sessions, session_file, core_state>>

\* ---------------------------------------------------------------- caller
\* The caller takes the result and is ready for its next call.
Return ==
  /\ pc = "returned"
  /\ pc' = "idle"
  /\ call' = NoCall
  /\ ret' = NoValue
  /\ prev' = NoCall
  /\ UNCHANGED <<dbs, session_state>>

Init ==
  /\ skills_database = create_skills_database
  /\ job_database = create_job_database
  /\ resources_database = create_resources_database
  /\ pc = "idle"
  /\ call = NoCall
  /\ ret = NoValue
  /\ prev = NoCall
  /\ sessions = [m \in Managers |-> EmptyDict]
  /\ session_file = NoFile
  /\ now = 0
  /\ last = [op |-> "none"]

Next ==
  \/ FindSkillGaps
  \/ RankSkills
  \/ RankAgain
  \/ ExtractSkills
  \/ MatchJobs
  \/ MatchWithMoreSkills
  \/ SearchJobs
  \/ SearchStricter
  \/ FindResources
  \/ CreateLearningPath
  \/ SuggestSkills
  \/ CategorizeSkills
  \/ Return

Spec == Init /\ [][Next]_vars

\* Processes that hold SessionManager instances only, as the session tests do: the
\* instances were constructed before the session file existed, and no tool with a
\* database has been constructed.
SessionInit ==
  /\ skills_database = <<>>
  /\ job_database = <<>>
  /\ resources_database = <<>>
  /\ pc = "idle"
  /\ call = NoCall
  /\ ret = NoValue
  /\ prev = NoCall
  /\ sessions = [m \in Managers |-> EmptyDict]
  /\ session_file = NoFile
  /\ now = 0
  /\ last = [op |-> "none"]

SessionNext ==
  \/ Construct
  \/ CreateSession
  \/ StoreSessionData
  \/ RetrieveSessionData
  \/ DeleteSession
  \/ Tick

\* One instance at work on the session file.
SessionSpec == SessionInit /\ [][SessionNext]_vars

\* Two instances at work on the same session file.
SharedFileNext ==
  \/ Construct
  \/ CreateSession
  \/ StoreSessionData
  \/ RetrieveSessionData
  \/ DeleteSession
  \/ Tick
  \/ CliConstruct
  \/ CliCreateSession
  \/ CliStoreSessionData

SharedFileSpec == SessionInit /\ [][SharedFileNext]_vars

\* ================================================================ properties
Returned(op) == pc = "returned" /\ call.op = op

LowerSet(list) == {lower(list[i]) : i \in 1..Len(list)}

\* Sum of duration_hours over a list of resources entries.
SumHours(resources) ==
  LET sum[n \in 0..Len(resources)] ==
        IF n = 0 THEN 0 ELSE sum[n - 1] + resources[n].duration_hours
  IN  sum[Len(resources)]

\* Sum of cost_inr over a list of resources entries.
SumCost(resources) ==
  LET sum[n \in 0..Len(resources)] ==
        IF n = 0 THEN 0 ELSE sum[n - 1] + resources[n].cost_inr
  IN  sum[Len(resources)]

\* C1: find_skill_gaps splits the required skills: compared in lower case as sets,
\* have_skills and missing_skills together are the required skills and share no skill, and a
\* required skill is in have_skills exactly when its lower-case form equals the lower-case
\* form of some user skill.
C1_GapsPartitionRequired ==
  Returned("find_skill_gaps") =>
    LET have == LowerSet(ret.have_skills)
        missing == LowerSet(ret.missing_skills)
        user == LowerSet(call.user_skills)
    IN  /\ have \cup missing = LowerSet(call.required_skills)
        /\ have \cap missing = {}
        /\ \A i \in 1..Len(call.required_skills) :
             lower(call.required_skills[i]) \in have
               <=> lower(call.required_skills[i]) \in user

\* A gap report with a held skill spelled in another case by the user and a missing skill
\* that contains a user skill as a proper substring.
C1_Witness ==
  /\ Returned("find_skill_gaps")
  /\ ret.have_skills # <<>>
  /\ ret.missing_skills # <<>>
  /\ \E i \in 1..Len(call.required_skills) :
       /\ ~InList(call.required_skills[i], call.user_skills)
       /\ lower(call.required_skills[i]) \in LowerSet(call.user_skills)
  /\ \E i \in 1..Len(ret.missing_skills), j \in 1..Len(call.user_skills) :
       Contains(lower(ret.missing_skills[i]), lower(call.user_skills[j]))

\* C2: match_percentage of find_skill_gaps is 100 * len(have_skills) / len(required_skills),
\* lies in [0, 100], and is 0 with empty have_skills and missing_skills when required_skills
\* is empty.
C2_GapPercentage ==
  Returned("find_skill_gaps") =>
    LET p == ret.match_percentage
        n == Len(call.required_skills)
    IN  /\ p.den > 0
        /\ FracLeq(Zero, p)
        /\ FracLeq(p, FracOfInt(100))
        /\ n > 0 => p.num * n = 100 * Len(ret.have_skills) * p.den
        /\ n = 0 => /\ FracEq(p, Zero)
                    /\ ret.have_skills = <<>>
                    /\ ret.missing_skills = <<>>

\* A gap report over a required list that repeats a skill, with some but not all held.
C2_Witness ==
  /\ Returned("find_skill_gaps")
  /\ Len(ret.have_skills) > 0
  /\ Len(ret.have_skills) < Len(call.required_skills)
  /\ Cardinality(Range(call.required_skills)) < Len(call.required_skills)

\* C3: match_jobs returns no posting whose match_percentage is below 50, and the returned
\* list is sorted non-increasing by match_percentage.
C3_MatchThresholdAndOrder ==
  Returned("match_jobs") =>
    /\ \A i \in 1..Len(ret) : FracLeq(FracOfInt(50), ret[i].match_percentage)
    /\ \A i, j \in 1..Len(ret) :
         i < j => FracLeq(ret[j].match_percentage, ret[i].match_percentage)

\* A match result with postings of different percentages, returned in another order than
\* the database lists them, while a posting at the searched location with a matched skill
\* was left out.
C3_Witness ==
  /\ Returned("match_jobs")
  /\ \E i, j \in 1..Len(ret) :
       /\ i < j
       /\ ret[i].id > ret[j].id
       /\ ~FracEq(ret[i].match_percentage, ret[j].match_percentage)
  /\ \E n \in 1..Len(job_database) :
       /\ ~location_excluded(job_database[n], call.target_location)
       /\ job_match_percentage(job_database[n], lower_all(call.user_skills)).num > 0
       /\ \A i \in 1..Len(ret) : ret[i].id # job_database[n].id

\* C4: create_learning_path returns total_hours equal to the sum of duration_hours over
\* its resources entries, total_cost equal to the sum of cost_inr over them, and no more
\* resources entries than skills.
C4_PathTotals ==
  Returned("create_learning_path") =>
    /\ ret.total_hours = SumHours(ret.resources)
    /\ ret.total_cost = SumCost(ret.resources)
    /\ Len(ret.resources) <= Len(call.skills)

\* A learning path over a list with a repeated skill and a skill without resources, in
\* which a bucket's best rated resource is not its first one.
C4_Witness ==
  /\ Returned("create_learning_path")
  /\ Cardinality(Range(call.skills)) < Len(call.skills)
  /\ 0 < Len(ret.resources)
  /\ Len(ret.resources) < Len(call.skills)
  /\ \E i \in 1..Len(call.skills) :
       /\ find_resources(call.skills[i], <<>>) # <<>>
       /\ best_rated(find_resources(call.skills[i], <<>>))
            # find_resources(call.skills[i], <<>>)[1]

\* C5: rank_skills returns one (skill, score) pair per input element, ordered by score
\* descending, skills of equal score in their input order; an empty input gives an empty
\* sequence.
C5_RankSortedStable ==
  Returned("rank_skills") =>
    /\ Len(ret) = Len(call.skills)
    /\ \A i \in 1..Len(ret) : ret[i][2] = demand_score(lower(ret[i][1]))
    /\ \A i, j \in 1..Len(ret) : i < j => ret[i][2] >= ret[j][2]
    /\ \A v \in {demand_score(lower(call.skills[i])) : i \in 1..Len(call.skills)} :
         LET HasScore(skill) == demand_score(lower(skill)) = v
         IN  SelectSeq(SkillNames(ret), HasScore) = SelectSeq(call.skills, HasScore)
    /\ call.skills = <<>> => ret = <<>>

\* A ranking whose input was not in score order and held two differently spelled skills
\* of equal score.
C5_Witness ==
  /\ Returned("rank_skills")
  /\ prev = NoCall
  /\ SkillNames(ret) # call.skills
  /\ \E i, j \in 1..Len(ret) : i < j /\ ret[i][2] = ret[j][2] /\ ret[i][1] # ret[j][1]

\* C6: ranking the skill names of a ranking, in its order, returns the same sequence of
\* (skill, score) pairs.
C6_RankIdempotent ==
  (Returned("rank_skills") /\ prev # NoCall) => ret = prev.ret

\* A second ranking, taken after a first one that reordered its input and held two
\* differently spelled skills of equal score.
C6_Witness ==
  /\ Returned("rank_skills")
  /\ prev # NoCall
  /\ call.skills = SkillNames(prev.ret)
  /\ prev.skills # call.skills
  /\ \E i, j \in 1..Len(ret) : i < j /\ ret[i][2] = ret[j][2] /\ ret[i][1] # ret[j][1]

\* C7: every skill extract_skills returns under a category is the title-cased form of a
\* skill the skills database lists under that category.
C7_ExtractedInCatalog ==
  Returned("extract_skills") =>
    \A category \in DOMAIN ret :
      \A i \in 1..Len(ret[category]) :
        /\ category \in DOMAIN skills_database
        /\ \E k \in 1..Len(skills_database[category]) :
             ret[category][i] = title(skills_database[category][k])

\* An extraction that found skills in two categories, one of them spelled in the text
\* in another case than the result.
C7_Witness ==
  /\ Returned("extract_skills")
  /\ Cardinality({category \in DOMAIN ret : ret[category] # <<>>}) >= 2
  /\ \E category \in DOMAIN ret :
       \E i \in 1..Len(ret[category]) :
         /\ ~Contains(call.text, ret[category][i])
         /\ ~Contains(call.text, lower(ret[category][i]))

\* C8: the list extract_skills returns for a category holds no skill twice.
C8_NoDuplicateInCategory ==
  Returned("extract_skills") =>
    \A category \in DOMAIN ret :
      \A i, j \in 1..Len(ret[category]) :
        i # j => ret[category][i] # ret[category][j]

\* The catalog skill occurs in the text as a whole token: delimited on each side by a
\* space or by the start or end of the text.
WholeToken(skill, text_lower) ==
  \E i \in 1..(Len(text_lower) - Len(skill) + 1) :
    /\ SubSeq(text_lower, i, i + Len(skill) - 1) = skill
    /\ i = 1 \/ text_lower[i - 1] = " "
    /\ i + Len(skill) - 1 = Len(text_lower) \/ text_lower[i + Len(skill)] = " "

\* C9: extract_skills reports a catalog skill only if it occurs in the lower-cased text as
\* a whole token, never when it only occurs as part of a longer word.
C9_WholeTokenOnly ==
  Returned("extract_skills") =>
    \A category \in DOMAIN skills_database :
      \A k \in 1..Len(skills_database[category]) :
        InList(title(skills_database[category][k]), ret[category])
          => WholeToken(skills_database[category][k], lower(call.text))

\* C10: for "I know Python, JavaScript, React, Docker, and AWS" extract_skills returns
\* "Python" under programming_languages, "React" under frontend, "Docker" under devops and
\* "Aws" under cloud_platforms.
C10_SampleTextSkills ==
  (Returned("extract_skills") /\ call.text = SampleText) =>
    /\ InList(<<"P","y","t","h","o","n">>, ret["programming_languages"])
    /\ InList(<<"R","e","a","c","t">>, ret["frontend"])
    /\ InList(<<"D","o","c","k","e","r">>, ret["devops"])
    /\ InList(<<"A","w","s">>, ret["cloud_platforms"])

\* C11: in the skills database every skill is a lower-case string listed at most once in
\* its category, and no skill is listed under two categories.
C11_CatalogDisjoint ==
  /\ \A category \in DOMAIN skills_database :
       LET skills_list == skills_database[category]
       IN  /\ \A i \in 1..Len(skills_list) : lower(skills_list[i]) = skills_list[i]
           /\ \A i, j \in 1..Len(skills_list) : i # j => skills_list[i] # skills_list[j]
  /\ \A c1, c2 \in DOMAIN skills_database :
       c1 # c2 => Range(skills_database[c1]) \cap Range(skills_database[c2]) = {}

\* C12: find_skill_gaps(["Python","JavaScript"], ["Python","JavaScript","React","SQL"])
\* returns have_skills ["Python","JavaScript"], missing_skills ["React","SQL"] and
\* match_percentage 50: the names are spelled as given in required_skills, in required order.
C12_SampleGapReport ==
  (/\ Returned("find_skill_gaps")
   /\ call.user_skills = SampleUserSkills
   /\ call.required_skills = SampleRequiredSkills) =>
    /\ ret.have_skills = SubSeq(SampleRequiredSkills, 1, 2)
    /\ ret.missing_skills = SubSeq(SampleRequiredSkills, 3, 4)
    /\ FracEq(ret.match_percentage, FracOfInt(50))

\* The career goal matches a goal key: the goal contains the key or the key contains the
\* goal, compared in lower case.
GoalKeyMatches(i, career_goal) ==
  \/ Contains(lower(career_goal), progression_paths[i].key)
  \/ Contains(progression_paths[i].key, lower(career_goal))

\* C13: suggest_skills returns an empty list whenever no goal key matches the career goal,
\* and in particular for an empty career_goal.
C13_NoGoalNoSuggestion ==
  Returned("suggest_skills") =>
    ((\/ call.career_goal = <<>>
      \/ \A i \in 1..Len(progression_paths) : ~GoalKeyMatches(i, call.career_goal))
       => ret = <<>>)

\* C14: when the career goal matches a goal key, suggest_skills returns the progression of
\* the first matching key in table order without the skills whose lower-case form is among
\* the lower-cased current skills, in progression order, cut to its first 5 elements; the
\* result has at most 5 entries and holds no skill the user already has.
C14_SuggestFromFirstMatch ==
  (/\ Returned("suggest_skills")
   /\ \E i \in 1..Len(progression_paths) : GoalKeyMatches(i, call.career_goal)) =>
    LET first == CHOOSE i \in 1..Len(progression_paths) :
                   /\ GoalKeyMatches(i, call.career_goal)
                   /\ \A j \in 1..(i - 1) : ~GoalKeyMatches(j, call.career_goal)
        held == LowerSet(call.current_skills)
        NotHeld(skill) == lower(skill) \notin held
        remaining == SelectSeq(progression_paths[first].skills, NotHeld)
    IN  /\ Len(ret) <= 5
        /\ \A i \in 1..Len(ret) : lower(ret[i]) \notin held
        /\ \A i \in 1..Len(ret) : ret[i] = remaining[i]
        /\ Len(ret) = IF Len(remaining) < 5 THEN Len(remaining) ELSE 5

\* A suggestion for a goal that two keys match, none of whose first progression's skills
\* the user holds, so that the sixth skill is cut off.
C14_Witness ==
  /\ Returned("suggest_skills")
  /\ Cardinality({i \in 1..Len(progression_paths) :
                    GoalKeyMatches(i, call.career_goal)}) >= 2
  /\ call.career_goal # <<>>
  /\ call.current_skills # <<>>
  /\ Len(ret) = 5

\* Number of the posting's required skills that, in lower case, contain some lower-cased
\* user skill as a substring.
MatchedCount(job, user_skills) ==
  Cardinality({k \in 1..Len(job.skills_required) :
                 \E u \in 1..Len(user_skills) :
                   Contains(lower(job.skills_required[k]), lower(user_skills[u]))})

\* The location filter is empty or a case-insensitive substring of the posting's location.
LocationPasses(job, target_location) ==
  target_location = <<>> \/ Contains(lower(job.location), lower(target_location))

\* C15: match_jobs returns a posting of the job database exactly when 100 * matched /
\* len(skills_required) is at least 50 (0 for a posting without required skills) and the
\* location filter is empty or a case-insensitive substring of its location; each returned
\* posting carries that percentage as match_percentage.
C15_MatchExactly ==
  Returned("match_jobs") =>
    /\ \A i \in 1..Len(ret) : \E n \in 1..Len(job_database) : ret[i].id = job_database[n].id
    /\ \A n \in 1..Len(job_database) :
         LET job == job_database[n]
             required == Len(job.skills_required)
             matched == MatchedCount(job, call.user_skills)
             hits == {i \in 1..Len(ret) : ret[i].id = job.id}
         IN  /\ hits # {} <=> (/\ required > 0
                                /\ 100 * matched >= 50 * required
                                /\ LocationPasses(job, call.target_location))
             /\ Cardinality(hits) <= 1
             /\ \A i \in hits :
                  /\ ret[i].match_percentage.den > 0
                  /\ ret[i].match_percentage.num * required
                       = 100 * matched * ret[i].match_percentage.den
                  /\ \A field \in DOMAIN job : ret[i][field] = job[field]

\* A match under a location filter spelled in another case than the postings' location,
\* which returned a posting, left one out for its location and one for its percentage.
C15_Witness ==
  /\ Returned("match_jobs")
  /\ ret # <<>>
  /\ call.target_location # <<>>
  /\ \A i \in 1..Len(ret) : ~Contains(ret[i].location, call.target_location)
  /\ \E n \in 1..Len(job_database) :
       /\ ~LocationPasses(job_database[n], call.target_location)
       /\ 2 * MatchedCount(job_database[n], call.user_skills)
            >= Len(job_database[n].skills_required)
  /\ \E n \in 1..Len(job_database) :
       /\ LocationPasses(job_database[n], call.target_location)
       /\ MatchedCount(job_database[n], call.user_skills) > 0
       /\ 2 * MatchedCount(job_database[n], call.user_skills)
            < Len(job_database[n].skills_required)

\* Position of a returned posting in the job database.
DatabaseIndex(posting) ==
  CHOOSE n \in 1..Len(job_database) : job_database[n] = posting

\* C16: in search_jobs a posting passes the keyword check exactly when the query is a
\* case-insensitive substring of its title or one of its required skills is a substring of
\* the query; a query naming a required skill of the posting (keywords "Python" for a
\* posting requiring "Python") passes even when the title does not contain the query.
\* Stated on the postings that meet the location and experience conditions, which are
\* returned exactly when they pass the keyword check.
C16_KeywordCheck ==
  Returned("search_jobs") =>
    \A n \in 1..Len(job_database) :
      LET job == job_database[n]
      IN  (/\ Contains(lower(job.location), lower(call.location))
           /\ job.experience_years >= call.min_experience) =>
            (InList(job, ret) <=>
               \/ Contains(lower(job.title), lower(call.keywords))
               \/ \E k \in 1..Len(job.skills_required) :
                    Contains(call.keywords, job.skills_required[k]))

\* C17: search_jobs returns, in database order, only postings whose experience_years is
\* at least min_experience and whose location contains the location argument in lower
\* case; a search repeated with a larger min_experience returns no posting the first one
\* did not; with every argument at its default the whole database is returned.
C17_SearchFilters ==
  Returned("search_jobs") =>
    /\ \A i \in 1..Len(ret) :
         /\ InList(ret[i], job_database)
         /\ ret[i].experience_years >= call.min_experience
         /\ Contains(lower(ret[i].location), lower(call.location))
    /\ \A i, j \in 1..Len(ret) : i < j => DatabaseIndex(ret[i]) < DatabaseIndex(ret[j])
    /\ prev # NoCall => \A i \in 1..Len(ret) : InList(ret[i], prev.ret)
    /\ (call.keywords = <<>> /\ call.location = <<>> /\ call.min_experience = 0)
         => ret = job_database

\* A search under a location filter, repeated with a larger min_experience, that still
\* returns a posting but no longer all of the first search.
C17_Witness ==
  /\ Returned("search_jobs")
  /\ prev # NoCall
  /\ call.location # <<>>
  /\ call.min_experience > prev.min_experience
  /\ ret # <<>>
  /\ Len(ret) < Len(prev.ret)

\* ["Python", "Machine Learning"]
SamplePathSkills ==
  <<<<"P","y","t","h","o","n">>, <<"M","a","c","h","i","n","e"," ","L","e","a","r","n","i","n","g">>>>

\* C18: for each skill that resolves to a resource bucket create_learning_path records
\* exactly one resources entry, the bucket resource of maximal rating and the first such in
\* bucket order; for ["Python","Machine Learning"] these are the 4.8 rated Python course
\* (40 h, cost 0) and the 4.9 rated machine-learning course (60 h, cost 2000), with
\* total_hours 100 and total_cost 2000.
C18_BestRatedPerSkill ==
  Returned("create_learning_path") =>
    LET Resolves(skill) == find_resources(skill, <<>>) # <<>>
        resolved == SelectSeq(call.skills, Resolves)
    IN  /\ Len(ret.resources) = Len(resolved)
        /\ \A i \in 1..Len(ret.resources) :
             LET bucket == find_resources(resolved[i], <<>>)
                 entry == ret.resources[i]
             IN  /\ entry.skill = resolved[i]
                 /\ \E k \in 1..Len(bucket) :
                      /\ entry.course = bucket[k].name
                      /\ entry.platform = bucket[k].platform
                      /\ entry.duration_hours = bucket[k].duration_hours
                      /\ entry.cost_inr = bucket[k].cost_inr
                      /\ entry.rating = bucket[k].rating
                      /\ \A j \in 1..Len(bucket) : bucket[j].rating <= bucket[k].rating
                      /\ \A j \in 1..(k - 1) : bucket[j].rating < bucket[k].rating
        /\ call.skills = SamplePathSkills =>
             /\ Len(ret.resources) = 2
             /\ ret.resources[1].rating = 48
             /\ ret.resources[1].duration_hours = 40
             /\ ret.resources[1].cost_inr = 0
             /\ ret.resources[2].rating = 49
             /\ ret.resources[2].duration_hours = 60
             /\ ret.resources[2].cost_inr = 2000
             /\ ret.total_hours = 100
             /\ ret.total_cost = 2000

\* The learning path of ["Python", "Machine Learning"].
C18_Witness ==
  /\ Returned("create_learning_path")
  /\ call.skills = SamplePathSkills
  /\ Len(ret.resources) = 2

\* The skill resolves to a resource bucket: its lower-case form is a substring of a bucket
\* key or a bucket key is a substring of it.
HasBucket(skill) ==
  \E b \in 1..Len(resources_database) :
    \/ Contains(resources_database[b].key, lower(skill))
    \/ Contains(lower(skill), resources_database[b].key)

\* C19: a skill resolves to a resource bucket only if its lower-case form is a substring of
\* a bucket key or a bucket key is a substring of it; a skill without such a bucket adds no
\* resources entry and nothing to the totals, and the returned skills field is the input
\* list.
C19_UnmatchedSkillsKept ==
  Returned("create_learning_path") =>
    /\ ret.skills = call.skills
    /\ [i \in 1..Len(ret.resources) |-> ret.resources[i].skill]
         = SelectSeq(call.skills, HasBucket)
    /\ (\A i \in 1..Len(call.skills) : ~HasBucket(call.skills[i])) =>
         /\ ret.resources = <<>>
         /\ ret.total_hours = 0
         /\ ret.total_cost = 0

\* A learning path over a list that holds a skill without a bucket between two skills
\* with one.
C19_Witness ==
  /\ Returned("create_learning_path")
  /\ \E i, j, k \in 1..Len(call.skills) :
       /\ i < j /\ j < k
       /\ HasBucket(call.skills[i])
       /\ ~HasBucket(call.skills[j])
       /\ HasBucket(call.skills[k])
  /\ Len(ret.resources) = Len(call.skills) - 1

\* ["Python", "JavaScript", "Go"]
SampleRankSkills ==
  <<<<"P","y","t","h","o","n">>, <<"J","a","v","a","S","c","r","i","p","t">>, <<"G","o">>>>

\* C20: rank_skills gives each skill the demand-table score of its lower-case form, and 50
\* when that form is not a table key, so every score lies in [0, 100]; for
\* ["Python","JavaScript","Go"] the output is Python (95), JavaScript (93), Go (50).
C20_DemandScores ==
  Returned("rank_skills") =>
    /\ \A i \in 1..Len(ret) :
         LET entries == {k \in 1..Len(demand_scores) :
                           demand_scores[k].key = lower(ret[i][1])}
         IN  /\ entries # {} => \E k \in entries : ret[i][2] = demand_scores[k].score
             /\ entries = {} => ret[i][2] = 50
             /\ 0 <= ret[i][2]
             /\ ret[i][2] <= 100
    /\ call.skills = SampleRankSkills =>
         ret = << <<SampleRankSkills[1], 95>>, <<SampleRankSkills[2], 93>>,
                  <<SampleRankSkills[3], 50>> >>

\* The ranking of ["Python", "JavaScript", "Go"].
C20_Witness ==
  /\ Returned("rank_skills")
  /\ prev = NoCall
  /\ call.skills = SampleRankSkills
  /\ Len(ret) = 3

\* The seven keywords of a priority skill.
PriorityKeywords ==
  { <<"p","y","t","h","o","n">>, <<"j","a","v","a">>,
    <<"j","a","v","a","s","c","r","i","p","t">>, <<"s","q","l">>, <<"a","w","s">>,
    <<"d","o","c","k","e","r">>, <<"k","u","b","e","r","n","e","t","e","s">> }

HasPriorityKeyword(skill) ==
  \E keyword \in PriorityKeywords : Contains(lower(skill), keyword)

\* C21: the priority_skills of find_skill_gaps is the sub-list of missing_skills, in the
\* same order, of the skills whose lower-case form contains one of python, java,
\* javascript, sql, aws, docker, kubernetes; no skill of have_skills is in priority_skills.
C21_PriorityIsCriticalMissing ==
  Returned("find_skill_gaps") =>
    /\ ret.priority_skills = SelectSeq(ret.missing_skills, HasPriorityKeyword)
    /\ \A i \in 1..Len(ret.priority_skills) :
         ~InList(ret.priority_skills[i], ret.have_skills)

\* A report with a skill the user has, a missing skill without a keyword, and a missing
\* skill flagged because a keyword is a proper part of it.
C21_Witness ==
  /\ Returned("find_skill_gaps")
  /\ ret.have_skills # <<>>
  /\ \E i \in 1..Len(ret.missing_skills) : ~InList(ret.missing_skills[i], ret.priority_skills)
  /\ \E i \in 1..Len(ret.priority_skills) : lower(ret.priority_skills[i]) \notin PriorityKeywords

\* The input skills whose lower-case form is listed in the catalog.
KnownSkills(skills) ==
  {j \in 1..Len(skills) :
     \E category \in DOMAIN skills_database :
       lower(skills[j]) \in Range(skills_database[category])}

\* Number of entries over all categories of a categorize_skills result.
EntryCount(categorized) ==
  LET count[n \in 0..Len(CategoryOrder)] ==
        IF n = 0 THEN 0 ELSE count[n - 1] + Len(categorized[CategoryOrder[n]])
  IN  count[Len(CategoryOrder)]

\* C22: categorize_skills places each input skill, title-cased, into a catalog category that
\* lists its exact lower-case form and into no other category, so each input element gives
\* at most one entry; skills in no category are dropped; every category key is present.
C22_CategorizedOnce ==
  Returned("categorize_skills") =>
    /\ DOMAIN ret = DOMAIN skills_database
    /\ \A category \in DOMAIN ret :
         \E kept \in SUBSET KnownSkills(call.skills) :
           LET Kept(j) == j \in kept
               positions == SelectSeq([j \in 1..Len(call.skills) |-> j], Kept)
           IN  /\ Len(ret[category]) = Len(positions)
               /\ \A i \in 1..Len(positions) :
                    /\ ret[category][i] = title(call.skills[positions[i]])
                    /\ lower(call.skills[positions[i]]) \in Range(skills_database[category])
    /\ EntryCount(ret) = Cardinality(KnownSkills(call.skills))

\* A list with a skill listed under two categories, a catalog skill in another spelling and
\* a name outside the catalog.
C22_Witness ==
  /\ Returned("categorize_skills")
  /\ call.skills = <<<<"d","o","c","k","e","r">>, <<"J","S">>, <<"r","E","A","C","T">>>>
  /\ ret["cloud_platforms"] = <<<<"D","o","c","k","e","r">>>>
  /\ ret["devops"] = <<>>
  /\ ret["frontend"] = <<<<"R","e","a","c","t">>>>

\* What the operation of a call returns on the databases as they are now.
ResultNow(c) ==
  CASE c.op = "extract_skills" -> extract_skills(c.text)
    [] c.op = "categorize_skills" -> categorize_skills(c.skills)
    [] c.op = "find_skill_gaps" -> find_skill_gaps(c.user_skills, c.required_skills)
    [] c.op = "rank_skills" -> rank_skills(c.skills)
    [] c.op = "suggest_skills" -> suggest_skills(c.current_skills, c.career_goal)
    [] c.op = "match_jobs" -> match_jobs(c.user_skills, c.target_location)
    [] c.op = "search_jobs" -> search_jobs(c.keywords, c.location, c.min_experience)
    [] c.op = "find_resources" -> find_resources(c.skill, c.level)
    [] c.op = "create_learning_path" -> create_learning_path(c.skills)

C24_AllCategoriesPresent ==
  Returned("extract_skills") =>
    /\ DOMAIN ret = DOMAIN skills_database
    /\ DOMAIN ret = Categories
    /\ Cardinality(DOMAIN ret) = 14
    /\ call.text = <<>> => \A category \in DOMAIN skills_database : ret[category] = <<>>

\* The result for the empty text.
C24_Witness ==
  /\ Returned("extract_skills")
  /\ call.text = <<>>
  /\ Cardinality(DOMAIN ret) = 14

\* C30: match_jobs is monotone in the user's skills: for every location filter and skill
\* lists A, B with every skill of A in B, every posting returned for A is returned for B
\* with a match_percentage at least as large; with an empty skill list the result is empty.
C30_MatchMonotone ==
  Returned("match_jobs") =>
    /\ call.user_skills = <<>> => ret = <<>>
    /\ (prev # NoCall /\ Range(prev.user_skills) \subseteq Range(call.user_skills)
          /\ prev.target_location = call.target_location) =>
         \A i \in 1..Len(prev.ret) :
           \E j \in 1..Len(ret) :
             /\ ret[j].id = prev.ret[i].id
             /\ FracLeq(prev.ret[i].match_percentage, ret[j].match_percentage)

\* With one more skill a posting already returned gains percentage and another posting
\* enters the result.
C30_Witness ==
  /\ Returned("match_jobs")
  /\ prev # NoCall
  /\ call.target_location # <<>>
  /\ \E i \in 1..Len(prev.ret), j \in 1..Len(ret) :
       /\ ret[j].id = prev.ret[i].id
       /\ ~FracLeq(ret[j].match_percentage, prev.ret[i].match_percentage)
  /\ Len(ret) > Len(prev.ret)

\* ================================================================ SessionManager properties
\* The step is an operation of instance m that stores to (session_id, key), deletes or
\* creates the session, or puts a new instance in the place of m.
Touches(m, session_id, key) ==
  /\ last'.op \in {"SessionManager", "create_session", "store_session_data", "delete_session"}
  /\ last'.m = m
  /\ last'.op = "create_session" => last'.ret = session_id
  /\ last'.op = "store_session_data" => last'.session_id = session_id /\ last'.key = key
  /\ last'.op = "delete_session" => last'.session_id = session_id

\* A store that returned True left its value under the key of the session.
StoredIsRetrieved ==
  (last.op = "store_session_data" /\ last.ret = TRUE) =>
    retrieve_session_data(sessions[last.m], last.session_id, last.key) = last.value

\* A session just created has an id containing the user id and an empty data map.
CreatedIsEmpty ==
  last.op = "create_session" =>
    /\ Contains(last.ret, last.user_id)
    /\ last.ret \in DOMAIN sessions[last.m]
    /\ sessions[last.m][last.ret].data = EmptyDict

\* C25: in a SessionManager, store_session_data on the id of a session it holds returns
\* True and the value is then what retrieve_session_data returns, through every further
\* operation that neither stores to the same (id, key) nor deletes or re-creates that
\* session; a session just created has an id containing the user id and an empty data map.
C25_StoredValueRetrievable ==
  [][/\ StoredIsRetrieved'
     /\ CreatedIsEmpty'
     /\ (last'.op = "store_session_data"
           /\ last'.session_id \in DOMAIN sessions[last'.m]) => last'.ret = TRUE
     /\ \A m \in Managers, session_id \in SessionIds, key \in Keys :
          (/\ retrieve_session_data(sessions[m], session_id, key) # None
           /\ ~Touches(m, session_id, key)) =>
            retrieve_session_data(sessions'[m], session_id, key)
              = retrieve_session_data(sessions[m], session_id, key)]_vars

\* A value stored in the session of the first second is retrieved after a second session
\* was created in the next second.
C25_Witness ==
  /\ last.op = "retrieve_session_data"
  /\ last.ret = "John"
  /\ last.session_id = session_id_of(<<"u","s","e","r">>, 0)
  /\ session_id_of(<<"u","s","e","r">>, 1) \in DOMAIN sessions[last.m]

\* C26: create_session never destroys existing data: the id it returns was not already a
\* key of sessions, so a second create_session for the same user, even within the same
\* clock second, leaves the data stored in the earlier session retrievable under its id.
C26_CreateKeepsData ==
  [][last'.op = "create_session" =>
       /\ last'.ret \notin DOMAIN sessions[last'.m]
       /\ \A session_id \in DOMAIN sessions[last'.m], key \in Keys :
            retrieve_session_data(sessions'[last'.m], session_id, key)
              = retrieve_session_data(sessions[last'.m], session_id, key)]_vars

\* C27: when two SessionManager instances share the session file, a create_session or
\* store_session_data of one instance that writes the file keeps in it every session and
\* stored value that the other instance holds and has saved there (no lost update).
C27_NoLostUpdate ==
  [][(/\ last'.op \in {"create_session", "store_session_data"}
      /\ last'.save = "written"
      /\ session_file.state = "json") =>
       \A other \in Managers \ {last'.m}, session_id \in DOMAIN session_file.sessions :
         (/\ session_id \in DOMAIN sessions[other]
          /\ sessions[other][session_id] = session_file.sessions[session_id]
          /\ last'.op = "create_session" => last'.ret # session_id
          /\ last'.op = "store_session_data" => last'.session_id # session_id) =>
           /\ session_id \in DOMAIN session_file'.sessions
           /\ session_file'.sessions[session_id] = session_file.sessions[session_id]]_vars

\* C28: for a session id that is not a key of sessions, store_session_data and
\* delete_session return False and retrieve_session_data returns None, the sessions map is
\* left unchanged and the session file is not rewritten; delete_session on an existing id
\* removes exactly that session and leaves every other session unchanged.
C28_UnknownIdAndDelete ==
  [][/\ (/\ last'.op \in {"store_session_data", "delete_session", "retrieve_session_data"}
         /\ last'.session_id \notin DOMAIN sessions[last'.m]) =>
          /\ last'.op = "retrieve_session_data" => last'.ret = None
          /\ last'.op # "retrieve_session_data" => last'.ret = FALSE /\ last'.save = "none"
          /\ sessions' = sessions
          /\ session_file' = session_file
     /\ (/\ last'.op = "delete_session"
         /\ last'.session_id \in DOMAIN sessions[last'.m]) =>
          /\ last'.ret = TRUE
          /\ DOMAIN sessions'[last'.m] = DOMAIN sessions[last'.m] \ {last'.session_id}
          /\ \A session_id \in DOMAIN sessions'[last'.m] :
               sessions'[last'.m][session_id] = sessions[last'.m][session_id]
          /\ \A other \in Managers \ {last'.m} : sessions'[other] = sessions[other]]_vars

\* A store to an id that the instance does not hold returned False while the instance
\* holds a session with data and the file is written.
C28_Witness ==
  /\ last.op = "store_session_data"
  /\ last.ret = FALSE
  /\ last.save = "none"
  /\ session_file.state = "json"
  /\ \E session_id \in DOMAIN sessions[last.m] :
       sessions[last.m][session_id].data # EmptyDict

\* C29: whenever store_session_data returns True the value is durable: a SessionManager
\* constructed afterwards on the same session file retrieves that value for the same
\* session id and key, also when writing the session file failed during the store.
C29_StoredIsDurable ==
  (last.op = "store_session_data" /\ last.ret = TRUE) =>
    retrieve_session_data(load_sessions(session_file), last.session_id, last.key) = last.value

====
